---- MODULE Spec2Model ----
(***************************************************************************)
(* A model of src/history.py: HistoryDB, the SQLite store behind one       *)
(* shared connection and one lock, and HistoryCollector, the background    *)
(* thread that polls the gateway and writes through the store.             *)
(*                                                                         *)
(* Threads of the model: the callers of start()/stop() (Callers), the      *)
(* collector threads start() creates (Workers), external writers and       *)
(* readers of the store (ExtWriters, Readers).  One action is one atomic   *)
(* step of one thread: a statement of the collector, one execute() or      *)
(* commit() on the connection, the return of a blocking call.              *)
(***************************************************************************)
EXTENDS Integers, Sequences, FiniteSets, TLC

\* ------------------------------------------------------------------ bounds
\* Threads start() may create in one run of the model.
MaxWorkers == 2
\* Collection cycles all workers together may begin in one run of the model.
MaxCycles == 2
\* Write operations the external writers together may begin.
MaxExtWrites == 2
\* Gateway calls and store writes that fail in one run of the model.
MaxFaults == 2
\* Write calls the thread of the sequential specifications makes.
MaxCalls == 3
\* Collection interval in seconds (HistoryCollector.INTERVAL is 60 in the
\* source; the loop is the same for every value, the model sleeps less).
INTERVAL == 1

\* ------------------------------------------------------- program constants
\* The sleep loop runs INTERVAL * 10 slices of time.sleep(0.1).
SLICES_PER_SECOND == 10
\* stop() waits self._thread.join(timeout=5).
JOIN_TIMEOUT == 5

SleepSlices == INTERVAL * SLICES_PER_SECOND
JoinTicks == JOIN_TIMEOUT * SLICES_PER_SECOND

Callers == {"c1", "c2"}
Workers == 1 .. MaxWorkers
ExtWriters == {"x1", "x2"}
Readers == {"r1"}
\* self._thread = None
NoThread == 0

\* --------------------------------------------------------- gateway values
\* A raw field of a gateway document: absent, a number, a numeric string, or
\* a value float() rejects.
Absent == [t |-> "absent"]
Num(n) == [t |-> "num", v |-> n]
NumStr(n) == [t |-> "str", v |-> n]
Junk == [t |-> "junk"]
\* float("nan"): a float that is no number.
NaN == [t |-> "nan"]
\* An int too large for a float, such as 10**400: float() raises
\* OverflowError on it.
Huge == [t |-> "huge"]

\* A job entry of the cron document.
Job(id, name, lastRun) == [id |-> id, name |-> name, lastRun |-> lastRun]

\* ------------------------------------------------------------------ state
VARIABLES
    stop_event,   \* HistoryCollector._stop_event: TRUE when set
    thread,       \* HistoryCollector._thread: a worker, or NoThread
    wk,           \* per worker: its position in _run/_collect and its locals
    cs,           \* per caller: its position in start()/stop()
    nspawned,     \* threads created so far
    ncycles,      \* collection cycles begun so far
    clock,        \* the last value time.time() returned
    lock,         \* HistoryDB._lock: TRUE when held
    closed,       \* HistoryDB._conn has been closed
    committed,    \* rows of the database file, in insertion order
    pending,      \* rows of the connection's open transaction
    xw,           \* per external writer: its position in a record_* call
    rd,           \* per reader: the last query and what it returned
    nwrites,      \* write calls the external writers have begun
    nfaults,      \* gateway calls and writes that have failed so far
    hist          \* history of the lifecycle calls (not program state)

vars == << stop_event, thread, wk, cs, nspawned, ncycles, clock, lock, closed,
           committed, pending, xw, rd, nwrites, nfaults, hist >>
storeVars == << lock, closed, committed, pending >>
collectorVars == << stop_event, thread, wk, cs, nspawned, ncycles, clock, hist >>

\* ------------------------------------------------------------------- rows
\* SQL NULL is the empty set, a stored value v the set {v}.
NULL == {}

\* A row of table `tbl`.  op and cyc are not columns: op names the write
\* call that inserted the row, `of` the number of rows that call inserts,
\* cyc the collection cycle (0: an external writer).
Row(tbl, ts, key, value, text, op, of, cyc) ==
    [tbl |-> tbl, ts |-> ts, key |-> key, value |-> value, text |-> text,
     op |-> op, of |-> of, cyc |-> cyc]

\* _safe_float: None and what float() rejects give None; float() accepts
\* float("nan") and the string "nan", and returns float("nan").
SafeFloat(raw) ==
    IF raw.t \in {"num", "str"} THEN {raw.v}
    ELSE IF raw.t = "nan" THEN {NaN}
    ELSE NULL

\* Python truthiness of a raw field: None, 0 and "" are false.
Truthy(raw) ==
    raw.t \in {"str", "junk", "nan", "huge"} \/ (raw.t = "num" /\ raw.v # 0)

\* float(raw) raises OverflowError, which `except (TypeError, ValueError)`
\* of lines 461 and 485 does not catch.
Overflows(raw) == raw.t = "huge"

\* Mutant: every value is stored as its text.
MetricRowAsText(ts, entry, op, of, cyc) ==
    Row("metrics", ts, entry[1], NULL, {entry[2]}, op, of, cyc)

\* record_metrics(ts, data), one entry: an int or float goes to `value`,
\* anything else to `value_text` as str(value).  SQLite stores the float
\* NaN as NULL: the row of float("nan") has neither value nor text.
MetricRow(ts, entry, op, of, cyc) ==
    IF entry[2].t = "num"
    THEN Row("metrics", ts, entry[1], {entry[2].v}, NULL, op, of, cyc)
    ELSE IF entry[2].t = "nan"
    THEN Row("metrics", ts, entry[1], NULL, NULL, op, of, cyc)
    ELSE Row("metrics", ts, entry[1], NULL, {entry[2]}, op, of, cyc)

\* The rows record_metrics(ts, data) inserts, in the order of data.items().
BatchRows(ts, data, op, cyc) ==
    [i \in 1 .. Len(data) |-> MetricRow(ts, data[i], op, Len(data), cyc)]

\* What a statement run on the shared connection reads: the database and
\* the connection's own open transaction.
Visible == committed \o pending

\* ------------------------------------------------- one write under the lock
\* A write call in progress: the rows still to insert, and whether the
\* caller is inside `with self._lock`.
NoJob == [rows |-> <<>>, held |-> FALSE]
NewJob(rows) == [rows |-> rows, held |-> FALSE]

\* Mutant: the write does not wait for the lock.
AcquireUnguarded(j) ==
    /\ ~j.held
    /\ lock' = TRUE
    /\ UNCHANGED << committed, pending, closed >>

\* `with self._lock:` entered (the store's part of the step).
Acquire(j) ==
    /\ ~j.held
    /\ ~lock
    /\ lock' = TRUE
    /\ UNCHANGED << committed, pending, closed >>

\* c.execute(INSERT ...) succeeded: the row joins the open transaction.
InsertOk(j) ==
    /\ j.held
    /\ j.rows # <<>>
    /\ ~closed
    /\ pending' = Append(pending, Head(j.rows))
    /\ UNCHANGED << lock, committed, closed >>

\* Mutant: the commit replaces the tables by the rows of the transaction.
CommitReplaces(j) ==
    /\ j.held
    /\ j.rows = <<>>
    /\ ~closed
    /\ committed' = pending
    /\ pending' = <<>>
    /\ lock' = FALSE
    /\ UNCHANGED closed

\* self._conn.commit() succeeded; the with-block ends and releases the lock.
CommitOk(j) ==
    /\ j.held
    /\ j.rows = <<>>
    /\ ~closed
    /\ committed' = committed \o pending
    /\ pending' = <<>>
    /\ lock' = FALSE
    /\ UNCHANGED closed

\* Mutant: the lock is taken with acquire() and released after the commit,
\* so an exception leaves it held.
WriteRaiseKeepsLock(j) ==
    /\ j.held
    /\ closed \/ nfaults < MaxFaults
    /\ nfaults' = IF closed THEN nfaults ELSE nfaults + 1
    /\ UNCHANGED << lock, pending, committed, closed >>

\* cursor(), execute() or commit() raised: on a closed connection always, on
\* an open one when the engine reports an error.  The with-block releases the
\* lock; nothing rolls the open transaction back, unless the engine did.
WriteRaise(j) ==
    /\ j.held
    /\ closed \/ nfaults < MaxFaults
    /\ nfaults' = IF closed THEN nfaults ELSE nfaults + 1
    /\ lock' = FALSE
    /\ \/ UNCHANGED pending
       \/ ~closed /\ pending # <<>> /\ pending' = <<>>
    /\ UNCHANGED << committed, closed >>

\* The job after each step.
Held(j) == [j EXCEPT !.held = TRUE]
Inserted(j) == [j EXCEPT !.rows = Tail(@)]

\* ------------------------------------------------------- collector: _collect
\* all_data: the raw response of each step that got as far as storing it.
EmptyData == [session_status |-> {}, sessions_list |-> {}, cron |-> {}]

InitWorker ==
    [pc |-> "unborn", now |-> 0, all_data |-> EmptyData, job |-> NoJob,
     resp |-> {}, jobs |-> <<>>, nrec |-> 0, slept |-> 0, napping |-> FALSE,
     \* history: cycles begun, the current cycle, its sub-steps begun, the
     \* responses it received, whether one of its writes raised
     cycles |-> 0, cyc |-> 0, steps |-> <<>>, got |-> EmptyData,
     werr |-> FALSE, prevFailed |-> FALSE]

CallPcs == {"status_call", "sessions_call", "cron_call"}
WritePcs == {"status_write", "sessions_write", "cron_write", "snapshot_write"}
CyclePcs == CallPcs \cup WritePcs
\* Thread.is_alive(): started and not yet finished.
AlivePcs == CyclePcs \cup {"loop", "sleep"}

\* The name of the write call of cycle r.cyc's step, for the rows' op.
OpOf(r, step, idx) == << ToString(r.cyc), step, idx >>

\* Mutant: the snapshot row is stamped with the time of its insert.
SnapshotRowStampedLate(r) ==
    Row("metrics", clock, "snapshot", NULL, {[doc |-> r.all_data]},
        OpOf(r, "snapshot", 0), 1, r.cyc)

\* json.dumps(all_data) and the row line 471 inserts.
SnapshotRow(r) ==
    Row("metrics", r.now, "snapshot", NULL, {[doc |-> r.all_data]},
        OpOf(r, "snapshot", 0), 1, r.cyc)

\* The sleep loop of _run begins (range(INTERVAL * 10) may be empty).
EnterSleep(r) ==
    [r EXCEPT !.pc = IF SleepSlices = 0 THEN "loop" ELSE "sleep",
              !.slept = 0, !.napping = FALSE, !.job = NoJob, !.resp = {},
              !.jobs = <<>>]

\* json.dumps accepts a response unless it carries a value that is no JSON
\* value (a set, bytes, an object): such a response has json = FALSE.
Encodable(resp) == "json" \notin DOMAIN resp \/ resp.json
CanDump(all_data) ==
    \A k \in DOMAIN all_data : \A resp \in all_data[k] : Encodable(resp)

\* Lines 469-476, the snapshot step: json.dumps(all_data), then the insert;
\* when json.dumps raises the handler of the step ends the cycle.
EnterSnapshot(r) ==
    LET r1 == [r EXCEPT !.pc = "snapshot_write",
                        !.steps = Append(@, "snapshot"),
                        !.resp = {}, !.jobs = <<>>]
    IN  IF CanDump(r.all_data)
        THEN [r1 EXCEPT !.job = NewJob(<< SnapshotRow(r) >>)]
        ELSE EnterSleep(r1)

\* Line 448: the cron call is made.
EnterCron(r) ==
    [r EXCEPT !.pc = "cron_call", !.steps = Append(@, "cron"),
              !.job = NoJob, !.resp = {}]

\* Line 434: the sessions_list call is made.
EnterSessions(r) ==
    [r EXCEPT !.pc = "sessions_call", !.steps = Append(@, "sessions_list"),
              !.job = NoJob, !.resp = {}]

\* A gateway call that raised, or returned something other than the
\* document the step expects.
Failed(resp) ==
    \/ resp.kind # "dict"
    \/ "field" \in DOMAIN resp /\ resp.field = "nonlist"
    \/ ~Encodable(resp)

\* History: a call or a write of the worker's last cycle failed.
CycleFailed(r) ==
    \/ r.werr
    \/ \E k \in DOMAIN r.got : \E resp \in r.got[k] : Failed(resp)

\* Lines 406-411: a cycle begins at time t, as cycle number n.
BeginCollect(r, t, n) ==
    [r EXCEPT !.pc = "status_call", !.now = t, !.all_data = EmptyData,
              !.cycles = @ + 1, !.cyc = n, !.steps = << "session_status" >>,
              !.got = EmptyData, !.werr = FALSE, !.nrec = 0,
              !.prevFailed = CycleFailed(r)]

\* Mutant: the steps have no handler of their own, the exception reaches
\* the handler of _run and the rest of the cycle is skipped.
OnExceptionPropagates(r) == EnterSleep(r)

\* Mutant: nothing catches the exception and the thread ends.
OnExceptionFatal(r) == [r EXCEPT !.pc = "dead"]

\* `except Exception: pass` of the step the worker is in: the next step runs.
OnException(r) ==
    CASE r.pc \in {"status_call", "status_write"} -> EnterSessions(r)
      [] r.pc \in {"sessions_call", "sessions_write"} -> EnterCron(r)
      [] r.pc \in {"cron_call", "cron_write"} -> EnterSnapshot(r)
      [] r.pc = "snapshot_write" -> EnterSleep(r)

\* Lines 413-423: the fields _safe_float converts, in insertion order.
MetricsData(resp) ==
    LET Entry(name, raw) ==
            IF SafeFloat(raw) = NULL THEN <<>>
            ELSE IF raw.t = "nan" THEN << << name, NaN >> >>
            ELSE << << name, Num(CHOOSE v \in SafeFloat(raw) : TRUE) >> >>
    IN  Entry("cost_total", resp.cost_total)
        \o Entry("tokens_in_total", resp.tokens_in_total)
        \o Entry("tokens_out_total", resp.tokens_out_total)

\* Lines 411-430 after the session_status call returned (or raised).
OnStatus(r, resp) ==
    LET r1 == [r EXCEPT !.got.session_status = {resp}]
        data == MetricsData(resp)
    IN  IF resp.kind = "raise" THEN OnException(r1)
        ELSE IF resp.kind # "dict" THEN EnterSessions(r1)
        ELSE IF \/ Overflows(resp.cost_total)
                \/ Overflows(resp.tokens_in_total)
                \/ Overflows(resp.tokens_out_total)
        THEN OnException(r1)
        ELSE IF data = <<>>
        THEN EnterSessions([r1 EXCEPT !.all_data.session_status = {resp}])
        ELSE [r1 EXCEPT !.pc = "status_write", !.resp = {resp},
                        !.job = NewJob(BatchRows(r.now, data,
                                                 OpOf(r, "session_status", 0),
                                                 r.cyc))]

\* sessions_resp.get("sessions", []) is a list: the field is one, or absent.
SessionsIsList(resp) == resp.field \in {"list", "absent"}

\* Lines 434-444 after the sessions_list call returned (or raised).
OnSessions(r, resp) ==
    LET r1 == [r EXCEPT !.got.sessions_list = {resp}]
    IN  IF resp.kind = "raise" THEN OnException(r1)
        ELSE IF resp.kind # "dict" \/ ~SessionsIsList(resp) THEN EnterCron(r1)
        ELSE [r1 EXCEPT !.pc = "sessions_write", !.resp = {resp},
                        !.job = NewJob(BatchRows(
                                    r.now,
                                    << << "sessions_active", Num(resp.sessions) >> >>,
                                    OpOf(r, "sessions_list", 0), r.cyc))]

\* 1e10, in the unit of the model's cron timestamps (1e7 seconds).
MS_THRESHOLD == 1000

\* Mutant: the last run is stored as it came.
LastTsUnscaled(raw, now) == IF raw.t \in {"num", "str"} THEN raw.v ELSE now

\* Lines 459-462: milliseconds above 1e10, seconds below, `now` when
\* float() rejects the value.
LastTs(raw, now) ==
    IF raw.t \in {"num", "str"}
    THEN IF raw.v > MS_THRESHOLD THEN raw.v \div 1000 ELSE raw.v
    ELSE now

\* job.get("id") or job.get("name") or "unknown" ("" stands for a missing
\* or empty field).
JobId(job) ==
    IF job.id # "" THEN job.id ELSE IF job.name # "" THEN job.name ELSE "unknown"

\* The row record_cron(last_ts, str(job_id), job) inserts.
CronRow(r, job) ==
    Row("crons", LastTs(job.lastRun, r.now), JobId(job), NULL,
        {[doc |-> job]}, OpOf(r, "cron", r.nrec), 1, r.cyc)

\* The for loop of lines 452-463 skips the jobs with no last run.
RECURSIVE ToRecord(_)
ToRecord(jobs) ==
    IF jobs = <<>> THEN <<>>
    ELSE IF Truthy(Head(jobs).lastRun) THEN jobs
    ELSE ToRecord(Tail(jobs))

\* The for loop goes on with r.jobs: the next job with a last run is
\* recorded; after the last job, line 464 stores the response.  A last run
\* on which float() raises OverflowError ends the step in its
\* `except Exception: pass`.
NextCron(r) ==
    LET left == ToRecord(r.jobs)
    IN  IF left = <<>>
        THEN EnterSnapshot([r EXCEPT !.all_data.cron = r.resp])
        ELSE IF Overflows(Head(left).lastRun) THEN OnException(r)
        ELSE [r EXCEPT !.pc = "cron_write", !.jobs = Tail(left),
                       !.nrec = @ + 1,
                       !.job = NewJob(<< CronRow(r, Head(left)) >>)]

\* Lines 448-466 after the cron call returned (or raised).
OnCron(r, resp) ==
    LET r1 == [r EXCEPT !.got.cron = {resp}]
    IN  IF resp.kind = "raise" THEN OnException(r1)
        ELSE IF resp.kind # "dict" THEN EnterSnapshot(r1)
        ELSE NextCron([r1 EXCEPT !.resp = {resp},
                                 !.jobs = IF resp.field = "list"
                                          THEN resp.jobs ELSE <<>>])

\* Mutant: the worker reads the stop flag between the sub-steps and ends
\* when it is set.
OnWrittenStopping(r) ==
    IF stop_event THEN [r EXCEPT !.pc = "dead"]
    ELSE CASE r.pc = "status_write" ->
                 EnterSessions([r EXCEPT !.all_data.session_status = r.resp])
           [] r.pc = "sessions_write" ->
                 EnterCron([r EXCEPT !.all_data.sessions_list = r.resp])
           [] r.pc = "cron_write" -> NextCron(r)
           [] r.pc = "snapshot_write" -> EnterSleep(r)

\* A write of the worker returned normally: the step stores its response
\* and the next step (or the next job) follows.
OnWritten(r) ==
    CASE r.pc = "status_write" ->
            EnterSessions([r EXCEPT !.all_data.session_status = r.resp])
      [] r.pc = "sessions_write" ->
            EnterCron([r EXCEPT !.all_data.sessions_list = r.resp])
      [] r.pc = "cron_write" -> NextCron(r)
      [] r.pc = "snapshot_write" -> EnterSleep(r)

\* --------------------------------------------------------- collector: _run
\* Mutant: the flag is not read, the loops go on for ever.
StopRequestedNever == FALSE

\* self._stop_event.is_set()
StopRequested == stop_event

SetWorker(w, r) == wk' = [wk EXCEPT ![w] = r]

\* What a step of a worker leaves alone, besides the store.
workerFrame == << stop_event, thread, cs, nspawned, hist, xw, rd, nwrites >>
\* What a step of a caller of start()/stop() leaves alone.
callerFrame == << ncycles, clock, storeVars, xw, rd, nwrites, nfaults >>

\* Line 393, the head of the while loop: with the flag set _run returns and
\* the thread ends, else _collect begins and reads the time, which has
\* advanced by one of `advance` since it was last read.
Loop(w, advance) ==
    /\ wk[w].pc = "loop"
    /\ IF StopRequested
       THEN /\ SetWorker(w, [wk[w] EXCEPT !.pc = "dead"])
            /\ UNCHANGED << ncycles, clock >>
       ELSE /\ ncycles < MaxCycles
            /\ \E d \in advance :
                 /\ clock' = clock + d
                 /\ SetWorker(w, BeginCollect(wk[w], clock + d, ncycles + 1))
            /\ ncycles' = ncycles + 1
    /\ UNCHANGED << workerFrame, storeVars, nfaults >>

\* The gateway answers resp.
Answer(resp) == nfaults' = IF Failed(resp) THEN nfaults + 1 ELSE nfaults

\* The responses of a gateway that fails only while the model allows a
\* failure.
Within(responses) ==
    IF nfaults < MaxFaults THEN responses
    ELSE {resp \in responses : ~Failed(resp)}

\* The blocking gateway call of the step returns one of `responses`, or
\* raises.
StatusReturn(w, responses) ==
    /\ wk[w].pc = "status_call"
    /\ \E resp \in responses :
         /\ Answer(resp)
         /\ SetWorker(w, OnStatus(wk[w], resp))
    /\ UNCHANGED << workerFrame, ncycles, clock, storeVars >>

SessionsReturn(w, responses) ==
    /\ wk[w].pc = "sessions_call"
    /\ \E resp \in responses :
         /\ Answer(resp)
         /\ SetWorker(w, OnSessions(wk[w], resp))
    /\ UNCHANGED << workerFrame, ncycles, clock, storeVars >>

CronReturn(w, responses) ==
    /\ wk[w].pc = "cron_call"
    /\ \E resp \in responses :
         /\ Answer(resp)
         /\ SetWorker(w, OnCron(wk[w], resp))
    /\ UNCHANGED << workerFrame, ncycles, clock, storeVars >>

\* The worker's write call (record_metrics, record_cron, _execute) takes
\* the lock.
WorkerAcquire(w) ==
    /\ wk[w].pc \in WritePcs
    /\ Acquire(wk[w].job)
    /\ SetWorker(w, [wk[w] EXCEPT !.job = Held(@)])
    /\ UNCHANGED << workerFrame, ncycles, clock, nfaults >>

\* It inserts its next row.
WorkerInsert(w) ==
    /\ wk[w].pc \in WritePcs
    /\ InsertOk(wk[w].job)
    /\ SetWorker(w, [wk[w] EXCEPT !.job = Inserted(@)])
    /\ UNCHANGED << workerFrame, ncycles, clock, nfaults >>

\* It commits, leaves the lock and goes on.
WorkerCommit(w) ==
    /\ wk[w].pc \in WritePcs
    /\ CommitOk(wk[w].job)
    /\ SetWorker(w, OnWritten(wk[w]))
    /\ UNCHANGED << workerFrame, ncycles, clock, nfaults >>

\* Its write raises: the step's except clause swallows the exception.
WorkerWriteRaise(w) ==
    /\ wk[w].pc \in WritePcs
    /\ WriteRaise(wk[w].job)
    /\ SetWorker(w, OnException([wk[w] EXCEPT !.werr = TRUE]))
    /\ UNCHANGED << workerFrame, ncycles, clock >>

\* Mutant: the sleep loop sleeps without reading the flag.
SleepCheckBlind(w) ==
    /\ wk[w].pc = "sleep"
    /\ ~wk[w].napping
    /\ SetWorker(w, [wk[w] EXCEPT !.napping = TRUE])
    /\ UNCHANGED << workerFrame, ncycles, clock, storeVars, nfaults >>

\* Lines 399-402, one pass of the sleep loop: with the flag set _run
\* returns, else time.sleep(0.1) is entered.
SleepCheck(w) ==
    /\ wk[w].pc = "sleep"
    /\ ~wk[w].napping
    /\ SetWorker(w, IF StopRequested THEN [wk[w] EXCEPT !.pc = "dead"]
                    ELSE [wk[w] EXCEPT !.napping = TRUE])
    /\ UNCHANGED << workerFrame, ncycles, clock, storeVars, nfaults >>

\* Mutant: the loop runs range(INTERVAL) passes, not INTERVAL * 10.
WokenEarly(r) ==
    [r EXCEPT !.napping = FALSE, !.slept = @ + 1,
              !.pc = IF r.slept + 1 = INTERVAL THEN "loop" ELSE "sleep"]

\* time.sleep(0.1) returned; after the last pass the while loop is back at
\* its head.
Woken(r) ==
    [r EXCEPT !.napping = FALSE, !.slept = @ + 1,
              !.pc = IF r.slept + 1 = SleepSlices THEN "loop" ELSE "sleep"]

\* One pass of the sleep loop as one step: the flag is read, and with the
\* flag clear time.sleep(0.1) is entered and returns.
SleepSlice(w) ==
    /\ wk[w].pc = "sleep"
    /\ ~wk[w].napping
    /\ SetWorker(w, IF StopRequested THEN [wk[w] EXCEPT !.pc = "dead"]
                    ELSE Woken(wk[w]))
    /\ UNCHANGED << workerFrame, ncycles, clock, storeVars, nfaults >>

\* The steps of a worker whose store works.
WorkerStep(w) ==
    \/ WorkerAcquire(w)
    \/ WorkerInsert(w)
    \/ WorkerCommit(w)
    \/ SleepSlice(w)

\* ------------------------------------------------ collector: start and stop
IsAlive(w) == w # NoThread /\ wk[w].pc \in AlivePcs
\* The workers inside _collect.
InCycle == {w \in Workers : wk[w].pc \in CyclePcs}

\* A caller: target is the thread it joins, elapsed the time it has waited
\* in join (in slices of 0.1 s); quiet is history: no cycle was in flight
\* when its stop() set the flag.
Idle == [pc |-> "idle", target |-> NoThread, elapsed |-> 0, quiet |-> FALSE]
SetCaller(c, pc) == cs' = [cs EXCEPT ![c] = [Idle EXCEPT !.pc = pc]]

InStart == {c \in Callers : cs[c].pc \in {"start_clear", "start_create", "start_thread"}}
InStop == {c \in Callers : cs[c].pc \in {"stop_join", "stop_wait"}}

\* History: `overlap` once a lifecycle call began while another was in
\* progress; since the last stop() began, the start() calls that returned
\* (counted to 2) and the threads start() created.
InitHist == [overlap |-> FALSE, runStarts |-> 0, runSpawns |-> 0]
Began(c, h) == [h EXCEPT !.overlap = @ \/ (InStart \cup InStop) \ {c} # {}]
StartReturned(h) == [h EXCEPT !.runStarts = IF @ < 2 THEN @ + 1 ELSE @]

\* Mutant: start() does not look for a running thread.
AlreadyRunningUnchecked == FALSE

\* Line 371: `if self._thread and self._thread.is_alive(): return`.
AlreadyRunning == thread # NoThread /\ IsAlive(thread)

\* start() begins.  (A call begins only while the model has a thread left
\* for it to create.)
StartCheck(c) ==
    /\ cs[c].pc = "idle"
    /\ nspawned + Cardinality({d \in Callers : cs[d].pc \in {"start_clear", "start_create"}})
         < MaxWorkers
    /\ IF AlreadyRunning
       THEN /\ hist' = StartReturned(Began(c, hist))
            /\ UNCHANGED cs
       ELSE /\ hist' = Began(c, hist)
            /\ SetCaller(c, "start_clear")
    /\ UNCHANGED << stop_event, thread, wk, nspawned, callerFrame >>

\* Line 373: self._stop_event.clear().
StartClear(c) ==
    /\ cs[c].pc = "start_clear"
    /\ stop_event' = FALSE
    /\ SetCaller(c, "start_create")
    /\ UNCHANGED << thread, wk, nspawned, hist, callerFrame >>

\* Lines 374-378: self._thread = threading.Thread(...), not yet started.
StartCreate(c) ==
    /\ cs[c].pc = "start_create"
    /\ nspawned' = nspawned + 1
    /\ thread' = nspawned + 1
    /\ SetWorker(nspawned + 1, [InitWorker EXCEPT !.pc = "created"])
    /\ SetCaller(c, "start_thread")
    /\ hist' = [hist EXCEPT !.runSpawns = @ + 1]
    /\ UNCHANGED << stop_event, callerFrame >>

\* Line 379: self._thread.start() starts the thread self._thread names now;
\* on a thread already started it raises RuntimeError.  start() returns.
StartThread(c) ==
    /\ cs[c].pc = "start_thread"
    /\ IF wk[thread].pc = "created"
       THEN SetWorker(thread, [wk[thread] EXCEPT !.pc = "loop"])
       ELSE UNCHANGED wk
    /\ SetCaller(c, "idle")
    /\ hist' = StartReturned(hist)
    /\ UNCHANGED << stop_event, thread, nspawned, callerFrame >>

\* Line 383: stop() begins with self._stop_event.set().
StopSet(c) ==
    /\ cs[c].pc = "idle"
    /\ stop_event' = TRUE
    /\ cs' = [cs EXCEPT ![c] = [Idle EXCEPT !.pc = "stop_join",
                                           !.quiet = InCycle = {}]]
    /\ hist' = [Began(c, hist) EXCEPT !.runStarts = 0, !.runSpawns = 0]
    /\ UNCHANGED << thread, wk, nspawned, callerFrame >>

\* Lines 384-385: with no thread stop() returns; join() on a thread not yet
\* started raises RuntimeError; else the caller waits in join(timeout=5).
StopJoin(c) ==
    /\ cs[c].pc = "stop_join"
    /\ IF thread = NoThread \/ wk[thread].pc = "created"
       THEN SetCaller(c, "idle")
       ELSE cs' = [cs EXCEPT ![c] = [@ EXCEPT !.pc = "stop_wait",
                                                !.target = thread]]
    /\ UNCHANGED << stop_event, thread, wk, nspawned, hist, callerFrame >>

\* join() returns because the thread has ended.
StopJoined(c) ==
    /\ cs[c].pc = "stop_wait"
    /\ wk[cs[c].target].pc = "dead"
    /\ SetCaller(c, "idle")
    /\ UNCHANGED << stop_event, thread, wk, nspawned, hist, callerFrame >>

\* join() returns because its timeout has expired, the thread still alive
\* (time left out: the timeout may expire at any moment).
StopExpired(c) ==
    /\ cs[c].pc = "stop_wait"
    /\ wk[cs[c].target].pc # "dead"
    /\ SetCaller(c, "idle")
    /\ UNCHANGED << stop_event, thread, wk, nspawned, hist, callerFrame >>

\* join(timeout=5) returns because JOIN_TIMEOUT seconds have gone by.
StopTimeout(c) ==
    /\ cs[c].pc = "stop_wait"
    /\ wk[cs[c].target].pc # "dead"
    /\ cs[c].elapsed = JoinTicks
    /\ SetCaller(c, "idle")
    /\ UNCHANGED << stop_event, thread, wk, nspawned, hist, callerFrame >>

\* A thread that moves without waiting for time to pass: a worker at a
\* check of the flag or in a store write, a caller inside start() or
\* stop(), a join that is over.
WorkerReady(w) ==
    \/ wk[w].pc \in WritePcs
    \/ wk[w].pc = "sleep" /\ ~wk[w].napping
    \/ wk[w].pc = "loop" /\ (StopRequested \/ ncycles < MaxCycles)
CallerReady(c) ==
    \/ cs[c].pc \in {"start_clear", "start_create", "start_thread", "stop_join"}
    \/ cs[c].pc = "stop_wait"
         /\ (wk[cs[c].target].pc = "dead" \/ cs[c].elapsed = JoinTicks)

\* 0.1 s go by, once no thread is ready to move: every time.sleep(0.1)
\* returns and every join has waited one slice more.  Gateway calls take
\* any time.
Tick ==
    /\ \A w \in Workers : ~WorkerReady(w)
    /\ \A c \in Callers : ~CallerReady(c)
    /\ wk' = [w \in Workers |->
                IF wk[w].pc = "sleep" /\ wk[w].napping THEN Woken(wk[w])
                ELSE wk[w]]
    /\ cs' = [c \in Callers |->
                IF cs[c].pc = "stop_wait"
                THEN [cs[c] EXCEPT !.elapsed = @ + 1] ELSE cs[c]]
    /\ UNCHANGED << stop_event, thread, nspawned, hist, callerFrame >>

\* The steps of a caller of start() and stop().
Lifecycle(c) ==
    \/ StartCheck(c)
    \/ StartClear(c)
    \/ StartCreate(c)
    \/ StartThread(c)
    \/ StopSet(c)
    \/ StopJoin(c)
    \/ StopJoined(c)
    \/ StopExpired(c)

\* HistoryDB.close(): the connection is closed, its open transaction lost.
\* (Closing the store under its users counts as one of the model's
\* failures.)
Close ==
    /\ ~closed
    /\ nfaults < MaxFaults
    /\ nfaults' = nfaults + 1
    /\ closed' = TRUE
    /\ pending' = <<>>
    /\ UNCHANGED << lock, committed, collectorVars, xw, rd, nwrites >>

\* ------------------------------------------------- store: external writers
\* An external writer: n is the number of its write call.
InitExt == [pc |-> "idle", job |-> NoJob, n |-> 0]

\* The write calls of the external writers, and the rows each inserts.
\* The name form of record_metrics stamps its row with time.time().
ExtOps == {"record_metrics", "record_metrics_name", "record_session",
           "record_cron"}
ExtRows(op, x, n) ==
    CASE op = "record_metrics" ->
            BatchRows(1, << << "cost_total", Num(1) >>, << "note", NumStr(2) >> >>,
                      << x, op, n >>, 0)
      [] op = "record_metrics_name" ->
            << MetricRow(clock, << "note", NumStr(2) >>, << x, op, n >>, 1, 0) >>
      [] op = "record_session" ->
            << Row("sessions", 1, "s1", NULL, {[doc |-> "s"]},
                   << x, op, n >>, 1, 0) >>
      [] op = "record_cron" ->
            << Row("crons", 1, "j1", NULL, {[doc |-> "j"]},
                   << x, op, n >>, 1, 0) >>

extFrame == << collectorVars, rd, nfaults >>

\* A thread calls one of the record_* methods.
ExtBegin(x) ==
    /\ xw[x].pc = "idle"
    /\ nwrites < MaxExtWrites
    /\ nwrites' = nwrites + 1
    /\ \E op \in ExtOps :
         xw' = [xw EXCEPT ![x] = [pc |-> "write", n |-> nwrites + 1,
                                  job |-> NewJob(ExtRows(op, x, nwrites + 1))]]
    /\ UNCHANGED << extFrame, storeVars >>

\* Lines 74 and 115: it takes the lock.
ExtAcquire(x) ==
    /\ xw[x].pc = "write"
    /\ Acquire(xw[x].job)
    /\ xw' = [xw EXCEPT ![x].job = Held(@)]
    /\ UNCHANGED << extFrame, nwrites >>

\* Lines 76 and 117-127: it inserts its next row.
ExtInsert(x) ==
    /\ xw[x].pc = "write"
    /\ InsertOk(xw[x].job)
    /\ xw' = [xw EXCEPT ![x].job = Inserted(@)]
    /\ UNCHANGED << extFrame, nwrites >>

\* Lines 77 and 128: it commits, leaves the lock and returns.
ExtCommit(x) ==
    /\ xw[x].pc = "write"
    /\ CommitOk(xw[x].job)
    /\ xw' = [xw EXCEPT ![x] = [@ EXCEPT !.pc = "idle", !.job = NoJob]]
    /\ UNCHANGED << extFrame, nwrites >>

ExtWrite(x) == ExtBegin(x) \/ ExtAcquire(x) \/ ExtInsert(x) \/ ExtCommit(x)

\* ----------------------------------------------------------- store: readers
\* A reader: its last query, the rows its SELECT read (history) and the
\* value the query returned.
InitReader == [query |-> "none", rows |-> <<>>, result |-> [kind |-> "none"]]

SetMin(S) == CHOOSE m \in S : \A n \in S : m <= n
SetMax(S) == CHOOSE m \in S : \A n \in S : n <= m
MetricsOf(rows) == SelectSeq(rows, LAMBDA row : row.tbl = "metrics")

\* Lines 311-327: COUNT(*), MIN(ts), MAX(ts) of metrics, 0 when there is no
\* row (the size of the file is left out).
GetStats(rows) ==
    LET m == MetricsOf(rows)
        ts == {m[i].ts : i \in DOMAIN m}
    IN  [kind |-> "stats", total_points |-> Len(m),
         oldest_ts |-> IF m = <<>> THEN 0 ELSE SetMin(ts),
         newest_ts |-> IF m = <<>> THEN 0 ELSE SetMax(ts)]

\* Lines 167-170: the distinct metric names (their order is left out).
GetAvailableMetrics(rows) ==
    LET m == MetricsOf(rows)
    IN  [kind |-> "metrics", metrics |-> {m[i].key : i \in DOMAIN m}]

\* Lines 145-163: the numeric rows of `metric` in [from_ts, to_ts], grouped
\* by FLOOR(ts / interval) * interval; per bucket, in ascending order, the
\* bucket, and the average as the sum and the number of its values.
RECURSIVE Ascending(_)
Ascending(S) ==
    IF S = {} THEN <<>> ELSE << SetMin(S) >> \o Ascending(S \ {SetMin(S)})
RECURSIVE SumOf(_)
SumOf(values) ==
    IF values = <<>> THEN 0 ELSE Head(values) + SumOf(Tail(values))
\* Mutant: the upper bound of the range is exclusive.
QueryMetricsHalfOpen(rows, metric, from_ts, to_ts, interval) ==
    LET Bucket(row) == (row.ts \div interval) * interval
        m == SelectSeq(MetricsOf(rows),
                       LAMBDA row : /\ row.key = metric
                                    /\ row.ts >= from_ts
                                    /\ row.ts < to_ts
                                    /\ row.value # NULL)
        buckets == Ascending({Bucket(m[i]) : i \in DOMAIN m})
        In(b) == SelectSeq(m, LAMBDA row : Bucket(row) = b)
        Values(b) == [i \in DOMAIN In(b) |->
                         CHOOSE v \in In(b)[i].value : TRUE]
    IN  [kind |-> "points",
         points |-> [i \in DOMAIN buckets |->
                        [bucket |-> buckets[i],
                         sum |-> SumOf(Values(buckets[i])),
                         n |-> Len(Values(buckets[i]))]]]

\* Mutant: a bucket that holds only rows without a number gets a point.
QueryMetricsNullFilled(rows, metric, from_ts, to_ts, interval) ==
    LET Bucket(row) == (row.ts \div interval) * interval
        m == SelectSeq(MetricsOf(rows),
                       LAMBDA row : /\ row.key = metric
                                    /\ row.ts >= from_ts
                                    /\ row.ts <= to_ts)
        buckets == Ascending({Bucket(m[i]) : i \in DOMAIN m})
        In(b) == SelectSeq(m, LAMBDA row : /\ Bucket(row) = b
                                           /\ row.value # NULL)
        Values(b) == [i \in DOMAIN In(b) |->
                         CHOOSE v \in In(b)[i].value : TRUE]
    IN  [kind |-> "points",
         points |-> [i \in DOMAIN buckets |->
                        [bucket |-> buckets[i],
                         sum |-> SumOf(Values(buckets[i])),
                         n |-> Len(Values(buckets[i]))]]]

QueryMetrics(rows, metric, from_ts, to_ts, interval) ==
    LET Bucket(row) == (row.ts \div interval) * interval
        m == SelectSeq(MetricsOf(rows),
                       LAMBDA row : /\ row.key = metric
                                    /\ row.ts >= from_ts
                                    /\ row.ts <= to_ts
                                    /\ row.value # NULL)
        buckets == Ascending({Bucket(m[i]) : i \in DOMAIN m})
        In(b) == SelectSeq(m, LAMBDA row : Bucket(row) = b)
        Values(b) == [i \in DOMAIN In(b) |->
                         CHOOSE v \in In(b)[i].value : TRUE]
    IN  [kind |-> "points",
         points |-> [i \in DOMAIN buckets |->
                        [bucket |-> buckets[i],
                         sum |-> SumOf(Values(buckets[i])),
                         n |-> Len(Values(buckets[i]))]]]

\* A thread runs a query: its SELECT runs on the shared connection, without
\* the lock, and reads what the connection sees at that moment.
Read(r) ==
    /\ ~closed
    /\ \E q \in {"get_stats", "get_available_metrics", "query_metrics"} :
         rd' = [rd EXCEPT ![r] =
                  [query |-> q, rows |-> Visible,
                   result |->
                      CASE q = "get_stats" -> GetStats(Visible)
                        [] q = "get_available_metrics" ->
                              GetAvailableMetrics(Visible)
                        [] q = "query_metrics" ->
                              QueryMetrics(Visible, "cost_total", 0, 2, 2)]]
    /\ UNCHANGED << collectorVars, storeVars, xw, nwrites, nfaults >>

\* ---------------------------------------------- store: used from one thread
\* One thread calls the store, one call after the other: each write call
\* runs to its commit before the next call begins, each query reads the
\* committed rows.
ApiThread == "x1"
ApiReader == "r1"
ApiTs == {1, 2, 3}

\* json.dumps(data): the text whose parse is `data`.
Dumps(data) == [doc |-> data]

\* The rows a write call inserts.  The name form of record_metrics stamps
\* its row with time.time(); "snapshot" is the insert of lines 471-474.
ApiRows(call, x, n) ==
    CASE call.op = "record_metrics" ->
            BatchRows(call.ts, call.data, << x, call.op, n >>, 0)
      [] call.op = "record_metrics_name" ->
            << MetricRow(clock, << call.name, call.value >>,
                         << x, call.op, n >>, 1, 0) >>
      [] call.op = "snapshot" ->
            << Row("metrics", call.ts, "snapshot", NULL, {Dumps(call.data)},
                   << x, call.op, n >>, 1, 0) >>
      [] call.op = "record_session" ->
            << Row("sessions", call.ts, call.key, NULL, {Dumps(call.data)},
                   << x, call.op, n >>, 1, 0) >>
      [] call.op = "record_cron" ->
            << Row("crons", call.ts, call.key, NULL, {Dumps(call.data)},
                   << x, call.op, n >>, 1, 0) >>

\* History: the write calls the thread has made, and what each asked to
\* store in the metrics table, entry by entry.
CallLog(x) == IF "log" \in DOMAIN xw[x] THEN xw[x].log ELSE <<>>
Entries(call) ==
    CASE call.op = "record_metrics" ->
            [i \in DOMAIN call.data |->
                [ts |-> call.ts, name |-> call.data[i][1],
                 value |-> call.data[i][2]]]
      [] call.op = "record_metrics_name" ->
            << [ts |-> clock, name |-> call.name, value |-> call.value] >>
      [] OTHER -> <<>>
RECURSIVE Written(_)
Written(log) ==
    IF log = <<>> THEN <<>> ELSE Entries(Head(log)) \o Written(Tail(log))

\* The thread begins one of the write calls; what its last query returned
\* is gone.
ApiBegin(x, calls) ==
    /\ xw[x].pc = "idle"
    /\ nwrites < MaxCalls
    /\ nwrites' = nwrites + 1
    /\ \E call \in calls :
         xw' = [xw EXCEPT ![x] = [pc |-> "write", n |-> nwrites + 1,
                                  job |-> NewJob(ApiRows(call, x, nwrites + 1)),
                                  log |-> Append(CallLog(x), call),
                                  late |-> closed, raised |-> FALSE]]
    /\ rd' = [r \in Readers |-> InitReader]
    /\ UNCHANGED << collectorVars, nfaults, storeVars >>

\* Writes to the metrics table: numbers, a text, a NaN and a number under
\* the name "snapshot" through the batch form, the name form, and snapshots.
MetricCalls ==
    { [op |-> "record_metrics", ts |-> t,
       data |-> << << "cost_total", Num(v) >> >>] : t \in ApiTs, v \in {1, 3} }
    \cup { [op |-> "record_metrics", ts |-> 2,
            data |-> << << "cost_total", NumStr(2) >>, << "note", NaN >>,
                        << "snapshot", Num(1) >> >>] }
    \cup { [op |-> "record_metrics_name", name |-> "cost_total",
            value |-> raw] : raw \in {Num(1), NaN} }
    \cup { [op |-> "snapshot", ts |-> t, data |-> [seen |-> t]] : t \in {1, 3} }

\* json.loads(text): the text json.dumps wrote parses to what was dumped, a
\* numeric string to its number; str(None) and the like are no JSON.
Loads(text) ==
    IF "doc" \in DOMAIN text THEN [ok |-> TRUE, value |-> text.doc]
    ELSE IF text.t = "str" THEN [ok |-> TRUE, value |-> Num(text.v)]
    ELSE [ok |-> FALSE]

\* Lines 216-219, 268-271 and 298-301: the parsed payload, or {"raw": text}
\* when json.loads raises.
Parsed(text) ==
    IF Loads(text).ok THEN Loads(text).value ELSE [raw |-> text]

EmptyDict == [k \in {} |-> {}]
Abs(n) == IF n < 0 THEN 0 - n ELSE n

\* Mutant: the snapshot inserted last, wherever its timestamp lies.
QuerySnapshotLatest(rows, timestamp) ==
    LET snaps == SelectSeq(MetricsOf(rows),
                           LAMBDA row : /\ row.key = "snapshot"
                                        /\ row.text # NULL)
    IN  [kind |-> "snapshot",
         snapshot |-> IF snaps = <<>> THEN EmptyDict
                      ELSE Parsed(CHOOSE text \in snaps[Len(snaps)].text : TRUE)]

\* Lines 285-302: of the rows named "snapshot" that hold a text, the one
\* nearest to `timestamp` (the first inserted of the nearest: SQL leaves
\* the choice among equally near rows open), parsed; {} when there is none.
QuerySnapshot(rows, timestamp) ==
    LET snaps == SelectSeq(MetricsOf(rows),
                           LAMBDA row : /\ row.key = "snapshot"
                                        /\ row.text # NULL)
        Dist(i) == Abs(snaps[i].ts - timestamp)
        near == SetMin({i \in DOMAIN snaps :
                          \A j \in DOMAIN snaps : Dist(i) <= Dist(j)})
    IN  [kind |-> "snapshot",
         snapshot |-> IF snaps = <<>> THEN EmptyDict
                      ELSE Parsed(CHOOSE text \in snaps[near].text : TRUE)]

\* A JSON value that is no object, such as [1, 2]; like the raw fields
\* above it carries its kind in `t`, which no dict of the model has as key.
JsonList == [t |-> "list"]
IsDict(doc) == "t" \notin DOMAIN doc

\* ORDER BY ts ASC (rows of one timestamp in the order of their insertion).
RECURSIVE OrderByTs(_)
OrderByTs(rows) ==
    IF rows = <<>> THEN <<>>
    ELSE LET first == SetMin({rows[i].ts : i \in DOMAIN rows})
         IN  SelectSeq(rows, LAMBDA row : row.ts = first)
             \o OrderByTs(SelectSeq(rows, LAMBDA row : row.ts # first))

\* Lines 220-221 and 272-273: d["_ts"] = row[0]; d[field] = row[1].
Augment(d, ts, field, key) ==
    [k \in DOMAIN d \cup {"_ts", field} |->
        IF k = "_ts" THEN ts ELSE IF k = field THEN key ELSE d[k]]

\* Python truthiness of the filter argument: None and "" are false.
Filtering(key) == key # NULL /\ key # {""}

\* Lines 193-222 and 245-274: the rows of the table in [from_ts, to_ts], of
\* the key when the filter is truthy, in ascending order of ts; each parsed
\* (or wrapped as {"raw": text}) and given its timestamp and key.  The two
\* assignments stand outside the try block: on a parsed payload that is no
\* dict they raise TypeError, and the query with them.
QueryLog(rows, tbl, field, from_ts, to_ts, key) ==
    LET selected ==
            OrderByTs(SelectSeq(rows,
                LAMBDA row : /\ row.tbl = tbl
                             /\ row.ts >= from_ts
                             /\ row.ts <= to_ts
                             /\ Filtering(key) => row.key \in key))
        docs == [i \in DOMAIN selected |->
                    Parsed(CHOOSE text \in selected[i].text : TRUE)]
    IN  IF \E i \in DOMAIN docs : ~IsDict(docs[i])
        THEN [kind |-> "raise", error |-> "TypeError"]
        ELSE [kind |-> tbl,
              records |-> [i \in DOMAIN docs |->
                              Augment(docs[i], selected[i].ts, field,
                                      selected[i].key)]]

QuerySessions(rows, from_ts, to_ts, session_key) ==
    QueryLog(rows, "sessions", "_session_key", from_ts, to_ts, session_key)
QueryCrons(rows, from_ts, to_ts, job_id) ==
    QueryLog(rows, "crons", "_job_id", from_ts, to_ts, job_id)

\* What a query returns on the rows its SELECT reads.
Run(query, rows) ==
    CASE query.q = "query_metrics" ->
            QueryMetrics(rows, query.metric, query.from_ts, query.to_ts,
                         query.interval)
      [] query.q = "query_snapshot" -> QuerySnapshot(rows, query.timestamp)
      [] query.q = "query_sessions" ->
            QuerySessions(rows, query.from_ts, query.to_ts, query.key)
      [] query.q = "query_crons" ->
            QueryCrons(rows, query.from_ts, query.to_ts, query.key)
      [] query.q = "get_stats" -> GetStats(rows)
      [] query.q = "get_available_metrics" -> GetAvailableMetrics(rows)

\* What a call on a closed store ends with: the cursor() of line 74 raises
\* sqlite3.ProgrammingError, and nothing between it and the caller catches.
ClosedError == [kind |-> "raise", error |-> "ProgrammingError"]

\* A store whose queries answer a closed store with an empty result.
ExecuteSwallowing(query, rows) ==
    IF closed THEN [kind |-> "none"] ELSE Run(query, rows)

\* _execute under a query: the statement runs on the connection, which
\* raises once close() has been called.
Execute(query, rows) ==
    IF closed THEN ClosedError ELSE Run(query, rows)

\* The thread runs a query between two of its write calls (one query: a
\* second one would read the same rows).
ApiRead(r, x, queries) ==
    /\ xw[x].pc = "idle"
    /\ rd[r].query = "none"
    /\ \E query \in queries :
         rd' = [rd EXCEPT ![r] = [query |-> query.q, args |-> query,
                                  rows |-> Visible,
                                  result |-> Execute(query, Visible),
                                  late |-> closed]]
    /\ UNCHANGED << collectorVars, storeVars, xw, nwrites, nfaults >>

\* A write call of the thread raises into its caller: cursor(), execute() or
\* commit() raised, and record_metrics, record_session and record_cron catch
\* nothing.
ApiRaise(x) ==
    /\ xw[x].pc = "write"
    /\ WriteRaise(xw[x].job)
    /\ xw' = [xw EXCEPT ![x] = [@ EXCEPT !.pc = "idle", !.job = NoJob,
                                         !.raised = TRUE]]
    /\ UNCHANGED << collectorVars, rd, nwrites >>

\* Queries of the metrics table: a name with rows and one without, ranges
\* that hold all, some and none of the timestamps, two bucket widths.
MetricQueries ==
    { [q |-> "query_metrics", metric |-> name, from_ts |-> range[1],
       to_ts |-> range[2], interval |-> width] :
         name \in {"cost_total", "tokens"},
         range \in {<< 0, 3 >>, << 1, 2 >>, << 2, 3 >>, << 3, 1 >>},
         width \in {2, 3} }
    \cup { [q |-> "query_snapshot", timestamp |-> t] : t \in 0 .. 4 }

\* Writes to the sessions and crons tables: a payload dict, a dict that
\* uses the keys the queries add, and a payload that is a list.
Payloads ==
    { [a |-> 1],
      [a |-> 1, _ts |-> 9, _session_key |-> "mine", _job_id |-> "mine"],
      JsonList }
LogCalls ==
    { [op |-> "record_session", ts |-> t, key |-> k, data |-> d] :
         t \in {1, 2}, k \in {"s1", "s2"}, d \in Payloads }
    \cup { [op |-> "record_cron", ts |-> 1, key |-> "j1", data |-> d] :
              d \in Payloads }

\* Queries of the two tables: the whole range and a part, without a filter
\* (None), with the empty string and with a key.
LogQueries ==
    { [q |-> "query_sessions", from_ts |-> range[1], to_ts |-> range[2],
       key |-> k] :
         range \in {<< 0, 3 >>, << 2, 2 >>}, k \in {NULL, {""}, {"s1"}} }
    \cup { [q |-> "query_crons", from_ts |-> 0, to_ts |-> 3, key |-> k] :
              k \in {NULL, {""}, {"j1"}} }

\* ------------------------------------------------------------ specification

Init ==
    /\ stop_event = FALSE
    /\ thread = NoThread
    /\ wk = [w \in Workers |-> InitWorker]
    /\ cs = [c \in Callers |-> Idle]
    /\ nspawned = 0
    /\ ncycles = 0
    /\ clock = 0
    /\ lock = FALSE
    /\ closed = FALSE
    /\ committed = <<>>
    /\ pending = <<>>
    /\ xw = [x \in ExtWriters |-> InitExt]
    /\ rd = [r \in Readers |-> InitReader]
    /\ nwrites = 0
    /\ nfaults = 0
    /\ hist = InitHist

\* A gateway that works: what each call returns then.
GoodStatus ==
    [kind |-> "dict", cost_total |-> Num(2), tokens_in_total |-> NumStr(1),
     tokens_out_total |-> Junk]
GoodSessions == [kind |-> "dict", field |-> "list", sessions |-> 2]
GoodCron ==
    [kind |-> "dict", field |-> "list",
     jobs |-> << Job("j1", "", Num(3)), Job("", "nightly", Absent) >>]

\* A cron document with a value json.dumps rejects, such as
\* {"jobs": [], "seen": {1, 2}}.
OpaqueCron ==
    [kind |-> "dict", field |-> "list", jobs |-> <<>>, json |-> FALSE]

\* The steps of a worker when the gateway and the store work.
WorkerUp(w) ==
    \/ Loop(w, {1})
    \/ WorkerStep(w)
    \/ StatusReturn(w, {GoodStatus})
    \/ SessionsReturn(w, {GoodSessions})
    \/ CronReturn(w, {GoodCron})

\* The collector used from one thread: start() and stop() called one after
\* the other, and the workers' cycles.  Time is left out: a join may expire
\* whenever its thread is still alive.
Next ==
    \/ Lifecycle("c1")
    \/ \E w \in Workers : WorkerUp(w)

Spec == Init /\ [][Next]_vars

\* The same with a second thread, which calls start() while the first
\* calls start() and stop().
NextRace ==
    \/ Lifecycle("c1")
    \/ StartCheck("c2")
    \/ StartClear("c2")
    \/ StartCreate("c2")
    \/ StartThread("c2")
    \/ \E w \in Workers : WorkerUp(w)

SpecRace == Init /\ [][NextRace]_vars

\* One thread calls start(), once, and stop(); the gateway and the store
\* fail in every way, and the store may be closed under the collector.
NextCycle ==
    \/ nspawned = 0 /\ StartCheck("c1")
    \/ StartClear("c1")
    \/ StartCreate("c1")
    \/ StartThread("c1")
    \/ StopSet("c1")
    \/ StopJoin("c1")
    \/ StopJoined("c1")
    \/ StopExpired("c1")
    \/ \E w \in Workers :
         \/ Loop(w, {1})
         \/ WorkerStep(w)
         \/ WorkerWriteRaise(w)
         \/ StatusReturn(w, Within({ GoodStatus, [kind |-> "raise"],
                                     [kind |-> "nondict"] }))
         \/ SessionsReturn(w, Within({ GoodSessions, [kind |-> "raise"],
                                       [kind |-> "dict", field |-> "nonlist",
                                        sessions |-> 0] }))
         \/ CronReturn(w, Within({ GoodCron, [kind |-> "raise"],
                                   [kind |-> "nondict"], OpaqueCron }))
    \/ Close

SpecCycle == Init /\ [][NextCycle]_vars

\* The writers of the store: the worker of one start(), for one cycle, and
\* the external writers, the gateway and the store working.
NextStore ==
    \/ nspawned = 0 /\ StartCheck("c1")
    \/ StartClear("c1")
    \/ StartCreate("c1")
    \/ StartThread("c1")
    \/ \E w \in Workers :
         \/ ncycles = 0 /\ Loop(w, {1})
         \/ WorkerAcquire(w)
         \/ WorkerInsert(w)
         \/ WorkerCommit(w)
         \/ StatusReturn(w, {GoodStatus})
         \/ SessionsReturn(w, {GoodSessions})
         \/ CronReturn(w, {GoodCron})
    \/ \E x \in ExtWriters : ExtWrite(x)

SpecStore == Init /\ [][NextStore]_vars

\* Queries while the external writers write.
NextRead ==
    \/ \E x \in ExtWriters : ExtWrite(x)
    \/ \E r \in Readers : Read(r)

SpecRead == Init /\ [][NextRead]_vars

\* One thread writes the metrics table and queries it.
NextMetrics ==
    \/ ApiBegin(ApiThread, MetricCalls)
    \/ ExtAcquire(ApiThread)
    \/ ExtInsert(ApiThread)
    \/ ExtCommit(ApiThread)
    \/ ApiRead(ApiReader, ApiThread, MetricQueries)

SpecMetrics == Init /\ [][NextMetrics]_vars

\* The operations that touch the tables: the writes of the worker of one
\* start(), one of which may raise, the four write calls made by another
\* thread, and close() under both.
NextLog ==
    \/ nspawned = 0 /\ StartCheck("c1")
    \/ StartClear("c1")
    \/ StartCreate("c1")
    \/ StartThread("c1")
    \/ \E w \in Workers :
         \/ ncycles = 0 /\ Loop(w, {1})
         \/ WorkerAcquire(w)
         \/ WorkerInsert(w)
         \/ WorkerCommit(w)
         \/ WorkerWriteRaise(w)
         \/ StatusReturn(w, {GoodStatus})
         \/ SessionsReturn(w, {GoodSessions})
         \/ CronReturn(w, {GoodCron})
    \/ ExtWrite(ApiThread)
    \/ Close

SpecLog == Init /\ [][NextLog]_vars

\* One thread writes the sessions and crons tables and queries them.
NextRecords ==
    \/ ApiBegin(ApiThread, LogCalls)
    \/ ExtAcquire(ApiThread)
    \/ ExtInsert(ApiThread)
    \/ ExtCommit(ApiThread)
    \/ ApiRead(ApiReader, ApiThread, LogQueries)

SpecRecords == Init /\ [][NextRecords]_vars

\* Spec with time: one thread calls start() and stop(), a join expires
\* after JOIN_TIMEOUT seconds, a pass of the sleep loop takes 0.1 s.
NextTimed ==
    \/ StartCheck("c1")
    \/ StartClear("c1")
    \/ StartCreate("c1")
    \/ StartThread("c1")
    \/ StopSet("c1")
    \/ StopJoin("c1")
    \/ StopJoined("c1")
    \/ StopTimeout("c1")
    \/ Tick
    \/ \E w \in Workers :
         \/ Loop(w, {1})
         \/ SleepCheck(w)
         \/ WorkerAcquire(w)
         \/ WorkerInsert(w)
         \/ WorkerCommit(w)
         \/ StatusReturn(w, {GoodStatus})
         \/ SessionsReturn(w, {GoodSessions})
         \/ CronReturn(w, {GoodCron})

SpecTimed == Init /\ [][NextTimed]_vars

\* Spec with every worker scheduled again and again, and every gateway
\* call returning in the end.
SpecLive == Spec /\ \A w \in Workers : WF_vars(WorkerUp(w))

\* One thread uses the store before and after close(): each of the write
\* calls, with and without rows, and each of the queries.
ClosedCalls ==
    { [op |-> "record_metrics", ts |-> 1,
       data |-> << << "cost_total", Num(1) >> >>],
      [op |-> "record_metrics", ts |-> 2, data |-> << >>],
      [op |-> "record_metrics_name", name |-> "cost_total", value |-> Num(2)],
      [op |-> "record_session", ts |-> 1, key |-> "s1", data |-> [a |-> 1]],
      [op |-> "record_cron", ts |-> 1, key |-> "j1", data |-> [a |-> 1]] }
ClosedQueries ==
    { [q |-> "query_metrics", metric |-> "cost_total", from_ts |-> 0,
       to_ts |-> 3, interval |-> 2],
      [q |-> "get_available_metrics"],
      [q |-> "query_sessions", from_ts |-> 0, to_ts |-> 3, key |-> NULL],
      [q |-> "query_crons", from_ts |-> 0, to_ts |-> 3, key |-> {"j1"}],
      [q |-> "query_snapshot", timestamp |-> 1],
      [q |-> "get_stats"] }
NextClosed ==
    \/ ApiBegin(ApiThread, ClosedCalls)
    \/ ExtAcquire(ApiThread)
    \/ ExtInsert(ApiThread)
    \/ ExtCommit(ApiThread)
    \/ ApiRaise(ApiThread)
    \/ ApiRead(ApiReader, ApiThread, ClosedQueries)
    \/ Close

SpecClosed == Init /\ [][NextClosed]_vars

\* The gateway documents of the extraction steps.  Status documents: each
\* field absent, a number, a numeric string, a text float() rejects, "nan",
\* or an int float() overflows on.
MaxJobs == 2
Statuses ==
    { [kind |-> "dict", cost_total |-> a, tokens_in_total |-> b,
       tokens_out_total |-> Absent] :
         a \in {Absent, Num(2), Junk, Huge}, b \in {Absent, NumStr(1), NaN} }
    \cup {[kind |-> "nondict"]}
\* Sessions documents: a list of two sessions, no sessions field, a field
\* that is no list, and a response that is no dict.
SessionLists ==
    { GoodSessions,
      [kind |-> "dict", field |-> "absent", sessions |-> 0],
      [kind |-> "dict", field |-> "nonlist", sessions |-> 0],
      [kind |-> "nondict"] }
\* Job entries: last runs in milliseconds, in seconds, at the threshold, as
\* a string, unconvertible, missing and overflowing; with an id, with a
\* name only, with neither.
CronJobs ==
    { Job("j1", "", Num(5000)), Job("j2", "n2", Num(5)),
      Job("j5", "", Num(MS_THRESHOLD)), Job("", "nightly", NumStr(5000)),
      Job("", "", Junk), Job("j3", "", Absent), Job("j4", "", Huge) }
JobLists == UNION { [1 .. n -> CronJobs] : n \in 0 .. MaxJobs }
CronDocs ==
    { [kind |-> "dict", field |-> "list", jobs |-> jobs] : jobs \in JobLists }

\* One start() and one cycle over every such document; the store works.
NextExtract ==
    \/ nspawned = 0 /\ StartCheck("c1")
    \/ StartClear("c1")
    \/ StartCreate("c1")
    \/ StartThread("c1")
    \/ \E w \in Workers :
         \/ ncycles = 0 /\ Loop(w, {1})
         \/ WorkerAcquire(w)
         \/ WorkerInsert(w)
         \/ WorkerCommit(w)
         \/ StatusReturn(w, Statuses)
         \/ SessionsReturn(w, SessionLists)
         \/ CronReturn(w, CronDocs)

SpecExtract == Init /\ [][NextExtract]_vars

\* ------------------------------------------------------- store: the file
\* The file of the store holds, next to the rows of the three tables, its
\* catalog: one entry for each table and index that exists (a row of the
\* table sqlite_master).  The other specifications leave the catalog out.
SchemaObjects ==
    << "metrics", "idx_metrics_ts", "idx_metrics_metric",
       "sessions", "idx_sessions_ts", "crons", "idx_crons_ts" >>
CatalogRow(name) ==
    Row("sqlite_master", 0, name, NULL, NULL, << "init", "create", 0 >>, 1, 0)
Catalog(rows) ==
    {rows[i].key : i \in {k \in DOMAIN rows : rows[k].tbl = "sqlite_master"}}

\* Lines 40-69, CREATE ... IF NOT EXISTS, one statement after the other: an
\* object the file lacks is created, one it holds is left alone.
RECURSIVE CreateIfNotExists(_, _)
CreateIfNotExists(rows, objects) ==
    IF objects = <<>> THEN rows
    ELSE CreateIfNotExists(
            IF Head(objects) \in Catalog(rows) THEN rows
            ELSE Append(rows, CatalogRow(Head(objects))),
            Tail(objects))

\* Mutant: the schema is set up afresh, DROP TABLE before CREATE TABLE.
InitDbRecreates(rows) == CreateIfNotExists(<<>>, SchemaObjects)

\* _init_db on a file holding `rows`.
InitDb(rows) == CreateIfNotExists(rows, SchemaObjects)

\* HistoryDB(path) once more, between two calls of the thread, on the path
\* the store was opened on: a new connection and a new lock; the open
\* transaction of the old connection, if one was left, is not part of the
\* file.
Open(x) ==
    /\ xw[x].pc = "idle"
    /\ committed' = InitDb(committed)
    /\ closed' = FALSE
    /\ lock' = FALSE
    /\ pending' = <<>>
    /\ UNCHANGED << collectorVars, xw, rd, nwrites, nfaults >>

\* What the path holds before the first HistoryDB(path): nothing, the file
\* of an earlier version with the metrics table alone, or a file with rows
\* in all three tables.
LegacyRow(tbl, key, value, text) ==
    Row(tbl, 1, key, value, text, << "x0", "record", 0 >>, 1, 0)
Files ==
    { <<>>,
      << CatalogRow("metrics"), LegacyRow("metrics", "cost_total", {1}, NULL) >>,
      InitDb(<<>>) \o << LegacyRow("metrics", "cost_total", {1}, NULL),
                         LegacyRow("sessions", "s1", NULL, {Dumps([a |-> 1])}),
                         LegacyRow("crons", "j1", NULL, {Dumps([a |-> 1])}) >> }

OpenCalls ==
    { [op |-> "record_metrics", ts |-> 2,
       data |-> << << "cost_total", Num(2) >> >>],
      [op |-> "record_session", ts |-> 2, key |-> "s2", data |-> [a |-> 1]],
      [op |-> "record_cron", ts |-> 2, key |-> "j2", data |-> [a |-> 1]] }
OpenQueries ==
    { [q |-> "get_stats"],
      [q |-> "query_sessions", from_ts |-> 0, to_ts |-> 3, key |-> NULL],
      [q |-> "query_crons", from_ts |-> 0, to_ts |-> 3, key |-> NULL] }

\* The store after its first construction on one of the files.
InitOpen ==
    /\ stop_event = FALSE
    /\ thread = NoThread
    /\ wk = [w \in Workers |-> InitWorker]
    /\ cs = [c \in Callers |-> Idle]
    /\ nspawned = 0
    /\ ncycles = 0
    /\ clock = 0
    /\ lock = FALSE
    /\ closed = FALSE
    /\ committed \in {InitDb(file) : file \in Files}
    /\ pending = <<>>
    /\ xw = [x \in ExtWriters |-> InitExt]
    /\ rd = [r \in Readers |-> InitReader]
    /\ nwrites = 0
    /\ nfaults = 0
    /\ hist = InitHist

\* One thread writes, queries, closes the store and opens it again.
NextOpen ==
    \/ ApiBegin(ApiThread, OpenCalls)
    \/ ExtAcquire(ApiThread)
    \/ ExtInsert(ApiThread)
    \/ ExtCommit(ApiThread)
    \/ ApiRaise(ApiThread)
    \/ ApiRead(ApiReader, ApiThread, OpenQueries)
    \/ Close
    \/ Open(ApiThread)

SpecOpen == InitOpen /\ [][NextOpen]_vars

\* The store shared by the collector and another thread: the worker of one
\* start() runs one cycle, the thread makes write calls (a batch of two
\* metrics, a session record), and a write of either may raise.
SharedCalls ==
    { [op |-> "record_metrics", ts |-> 1,
       data |-> << << "cost_total", Num(1) >>, << "note", Num(2) >> >>],
      [op |-> "record_session", ts |-> 1, key |-> "s1", data |-> [a |-> 1]] }
SharedQueries ==
    { [q |-> "query_metrics", metric |-> "cost_total", from_ts |-> 0,
       to_ts |-> 3, interval |-> 2],
      [q |-> "get_available_metrics"],
      [q |-> "query_sessions", from_ts |-> 0, to_ts |-> 3, key |-> NULL],
      [q |-> "query_crons", from_ts |-> 0, to_ts |-> 3, key |-> NULL],
      [q |-> "query_snapshot", timestamp |-> 1],
      [q |-> "get_stats"] }
NextShared ==
    \/ nspawned = 0 /\ StartCheck("c1")
    \/ StartClear("c1")
    \/ StartCreate("c1")
    \/ StartThread("c1")
    \/ \E w \in Workers :
         \/ ncycles = 0 /\ Loop(w, {1})
         \/ WorkerAcquire(w)
         \/ WorkerInsert(w)
         \/ WorkerCommit(w)
         \/ WorkerWriteRaise(w)
         \/ StatusReturn(w, {GoodStatus})
         \/ SessionsReturn(w, {GoodSessions})
         \/ CronReturn(w, {GoodCron})
    \/ ApiBegin(ApiThread, SharedCalls)
    \/ ExtAcquire(ApiThread)
    \/ ExtInsert(ApiThread)
    \/ ExtCommit(ApiThread)
    \/ ApiRaise(ApiThread)

SpecShared == Init /\ [][NextShared]_vars

\* The store under its owner's writes, one query and one cycle of the
\* collector, none of them failing: the thread records a session and a cron
\* run, and asks one of the six queries between two of its calls.
QuietCalls ==
    { [op |-> "record_session", ts |-> 1, key |-> "s1", data |-> [a |-> 1]],
      [op |-> "record_cron", ts |-> 2, key |-> "j1", data |-> [a |-> 1]] }
NextQuiet ==
    \/ nspawned = 0 /\ StartCheck("c1")
    \/ StartClear("c1")
    \/ StartCreate("c1")
    \/ StartThread("c1")
    \/ \E w \in Workers :
         \/ ncycles = 0 /\ Loop(w, {1})
         \/ WorkerAcquire(w)
         \/ WorkerInsert(w)
         \/ WorkerCommit(w)
         \/ StatusReturn(w, {GoodStatus})
         \/ SessionsReturn(w, {GoodSessions})
         \/ CronReturn(w, {GoodCron})
    \/ ApiBegin(ApiThread, QuietCalls)
    \/ ExtAcquire(ApiThread)
    \/ ExtInsert(ApiThread)
    \/ ExtCommit(ApiThread)
    \/ ApiRead(ApiReader, ApiThread, SharedQueries)

SpecQuiet == Init /\ [][NextQuiet]_vars

\* The clock of time.time() runs while a gateway call is out (up to
\* MaxClock, the calls of the model's cycles taking any time below it).
MaxClock == 3
CallTakesTime(w) ==
    /\ wk[w].pc \in CallPcs
    /\ clock < MaxClock
    /\ clock' = clock + 1
    /\ UNCHANGED << wk, ncycles, workerFrame, storeVars, nfaults >>

\* One start(): the worker's cycles with gateway calls that take time; a
\* cycle begins at once after the one before, or later.
NextClock ==
    \/ nspawned = 0 /\ StartCheck("c1")
    \/ StartClear("c1")
    \/ StartCreate("c1")
    \/ StartThread("c1")
    \/ \E w \in Workers :
         \/ Loop(w, {0, 1})
         \/ WorkerStep(w)
         \/ CallTakesTime(w)
         \/ StatusReturn(w, {GoodStatus})
         \/ SessionsReturn(w, {GoodSessions})
         \/ CronReturn(w, {GoodCron})

SpecClock == Init /\ [][NextClock]_vars

\* ------------------------------------------------------------------ claims
AliveWorkers == {w \in Workers : IsAlive(w)}

\* C1: start() called twice in a row, with no stop() in between and the
\* calls not overlapping, leaves one worker, not two: in a run of start()
\* calls at most one of them creates a thread, at most one worker is alive,
\* and once two calls of the run have returned (none in progress), one of
\* which created the thread, exactly that worker is running with the stop
\* flag clear.
C1_StartTwiceOneWorker ==
    ~hist.overlap =>
        /\ Cardinality(AliveWorkers) <= 1
        /\ hist.runSpawns <= 1
        /\ (hist.runStarts = 2 /\ hist.runSpawns = 1 /\ InStart = {}) =>
               /\ AliveWorkers = {thread}
               /\ ~stop_event

\* start() has returned twice in a row, the first call created the worker,
\* which is in a cycle; the second created nothing.
C1_Witness ==
    /\ hist.runStarts = 2
    /\ hist.runSpawns = 1
    /\ nspawned = 1
    /\ cs["c1"].pc = "idle"
    /\ wk[1].pc \in CyclePcs

\* C2: collection cycles never overlap, whatever the interleaving of the
\* start() and stop() calls of any number of threads: at no time are two
\* workers inside a collection cycle.
C2_CyclesNeverOverlap == Cardinality(InCycle) <= 1

\* The order of the sub-steps of a cycle.
StepOrder == << "session_status", "sessions_list", "cron", "snapshot" >>
StepOfPc(pc) ==
    CASE pc \in {"status_call", "status_write"} -> "session_status"
      [] pc \in {"sessions_call", "sessions_write"} -> "sessions_list"
      [] pc \in {"cron_call", "cron_write"} -> "cron"
      [] pc = "snapshot_write" -> "snapshot"
\* The worker's last cycle is over.
CycleOver(w) == wk[w].cycles >= 1 /\ wk[w].pc \in {"sleep", "loop", "dead"}

\* C3: within a cycle the sub-steps begin in the order session_status,
\* sessions_list, cron, snapshot, one at a time (the step in progress is the
\* last one begun), none twice, and a cycle that is over has run all four.
C3_StepsInOrder ==
    \A w \in Workers :
        /\ wk[w].steps = SubSeq(StepOrder, 1, Len(wk[w].steps))
        /\ wk[w].pc \in CyclePcs =>
               wk[w].steps[Len(wk[w].steps)] = StepOfPc(wk[w].pc)
        /\ CycleOver(w) => wk[w].steps = StepOrder

\* A cycle is over in which the first call raised and a write raised, and
\* all four sub-steps have run.
C3_Witness ==
    \E w \in Workers :
        /\ wk[w].pc = "sleep"
        /\ wk[w].steps = StepOrder
        /\ wk[w].got.session_status = {[kind |-> "raise"]}
        /\ wk[w].werr

\* The database holds a metric row of cycle cyc with this name and value.
Recorded(cyc, ts, name, v) ==
    \E i \in DOMAIN committed :
        /\ committed[i].tbl = "metrics"
        /\ committed[i].cyc = cyc
        /\ committed[i].ts = ts
        /\ committed[i].key = name
        /\ committed[i].value = {v}
\* The database holds the snapshot row of cycle cyc.
SnapshotRecorded(cyc, ts) ==
    \E i \in DOMAIN committed :
        /\ committed[i].tbl = "metrics"
        /\ committed[i].cyc = cyc
        /\ committed[i].ts = ts
        /\ committed[i].key = "snapshot"
        /\ committed[i].text # NULL

\* C4: a gateway step that raises or returns a malformed response does not
\* keep the other steps of the cycle from recording: when a cycle is over
\* and none of its store writes raised, the metrics of every session_status
\* document are recorded, the sessions_active metric of every sessions_list
\* document is, and so is the snapshot row, whatever the other calls did.
C4_StepIsolation ==
    \A w \in Workers :
        (CycleOver(w) /\ ~wk[w].werr) =>
            /\ \A resp \in wk[w].got.session_status :
                   resp.kind = "dict" =>
                       \A i \in DOMAIN MetricsData(resp) :
                           Recorded(wk[w].cyc, wk[w].now,
                                    MetricsData(resp)[i][1],
                                    MetricsData(resp)[i][2].v)
            /\ \A resp \in wk[w].got.sessions_list :
                   (resp.kind = "dict" /\ SessionsIsList(resp)) =>
                       Recorded(wk[w].cyc, wk[w].now, "sessions_active",
                                resp.sessions)
            /\ SnapshotRecorded(wk[w].cyc, wk[w].now)

\* C5: no failure ends the collection loop: a worker ends only at a check
\* of the stop flag (the head of the while loop, or a pass of the sleep
\* loop) that finds the flag set; after a cycle with failures it sleeps and
\* collects again.
C5_OnlyStopEndsWorker ==
    [][\A w \in Workers :
          (wk[w].pc # "dead" /\ wk'[w].pc = "dead") =>
              (stop_event /\ wk[w].pc \in {"loop", "sleep"})]_vars

\* A worker is in its second cycle, and its first cycle had failed.
C5_Witness ==
    \E w \in Workers :
        /\ wk[w].cycles = 2
        /\ wk[w].prevFailed
        /\ wk[w].pc \in CyclePcs

\* C6: a worker collects before it first sleeps, and begins a further cycle
\* only when the cycle before is over and all INTERVAL * 10 passes of the
\* sleep loop have gone by, each finding the stop flag clear.
C6_LoopSchedule ==
    /\ [](\A w \in Workers :
            /\ wk[w].pc = "sleep" => wk[w].cycles >= 1
            /\ wk[w].cycles = 0 => wk[w].slept = 0)
    /\ [][\A w \in Workers :
            /\ (wk[w].pc = "loop" /\ wk'[w].pc # "loop") =>
                   \/ wk'[w].pc = "status_call" /\ ~stop_event
                   \/ wk'[w].pc = "dead" /\ stop_event
            /\ (wk'[w].cycles = wk[w].cycles + 1 /\ wk[w].cycles >= 1) =>
                   /\ wk[w].pc = "loop"
                   /\ wk[w].steps = StepOrder
                   /\ wk[w].slept = SleepSlices
            /\ (wk[w].pc = "sleep" /\ wk'[w].slept = wk[w].slept + 1) =>
                   ~stop_event]_vars

\* A worker is in its second cycle, after a full sleep.
C6_Witness ==
    \E w \in Workers :
        /\ wk[w].cycles = 2
        /\ wk[w].pc = "status_call"
        /\ wk[w].slept = SleepSlices

\* C7: with the stop flag set, a worker in its sleep phase does nothing but
\* end the time.sleep(0.1) it is in and exit at the next check of the flag
\* (at most one further slice, no further cycle); so a stop() that set the
\* flag when no cycle was in flight waits at most one slice in join, which
\* returns because the worker has ended, not because the timeout expired.
C7_StopDuringSleep ==
    /\ [](\A c \in Callers :
            (cs[c].pc = "stop_wait" /\ cs[c].quiet) =>
                /\ cs[c].elapsed <= 1
                /\ cs[c].elapsed < JoinTicks)
    /\ [][\A w \in Workers :
            (stop_event /\ wk[w].pc \in {"sleep", "loop"}
                        /\ wk'[w] # wk[w]) =>
                \/ wk'[w].pc = "dead"
                \/ /\ wk[w].pc = "sleep" /\ wk[w].napping
                   /\ ~wk'[w].napping
                   /\ wk'[w].slept = wk[w].slept + 1
                   /\ wk'[w].pc \in {"sleep", "loop"}]_vars
    /\ [][\A c \in Callers :
            (cs[c].pc = "stop_wait" /\ cs[c].quiet /\ cs'[c].pc = "idle") =>
                wk[cs[c].target].pc = "dead"]_vars

\* stop() set the flag while the worker slept, has waited one slice in
\* join, and the worker has ended.
C7_Witness ==
    /\ cs["c1"].pc = "stop_wait"
    /\ cs["c1"].quiet
    /\ cs["c1"].elapsed = 1
    /\ wk[cs["c1"].target].pc = "dead"
    /\ wk[cs["c1"].target].cycles >= 1

\* C8: when the stop flag is set while a worker is alive, and every gateway
\* call returns, then in the end no worker is alive (the worker has ended;
\* start() calls made one after the other keep at most one alive), unless
\* a start() clears the flag first.
C8_EventualShutdown ==
    (stop_event /\ AliveWorkers # {}) ~> (AliveWorkers = {} \/ ~stop_event)

\* stop() waits for a worker that was inside a cycle when the flag was
\* set, and the worker has ended.
C8_Witness ==
    /\ cs["c1"].pc = "stop_wait"
    /\ ~cs["c1"].quiet
    /\ stop_event
    /\ wk[cs["c1"].target].pc = "dead"

\* The threads inside `with self._lock`.
WorkerHolders == {w \in Workers : wk[w].job.held}
ExtHolders == {x \in ExtWriters : xw[x].job.held}
NumHolders == Cardinality(WorkerHolders) + Cardinality(ExtHolders)

\* C9: every write path inserts and commits while it holds the store's
\* lock: at no time are two threads inside a write, the lock is held
\* exactly while a thread is, the rows of the open transaction are rows of
\* the write call of the thread inside, and every step that inserts or
\* commits is a step of that thread.
C9_WriterMutualExclusion ==
    /\ [](/\ NumHolders <= 1
          /\ lock <=> NumHolders = 1
          /\ \A i \in DOMAIN pending :
                 \/ \E w \in WorkerHolders :
                        pending[i].cyc = wk[w].cyc /\ pending[i].cyc # 0
                 \/ \E x \in ExtHolders :
                        pending[i].op = << x, pending[i].op[2], xw[x].n >>)
    /\ [][(pending' # pending \/ committed' # committed) =>
              /\ NumHolders = 1
              /\ \A w \in WorkerHolders : wk'[w] # wk[w]
              /\ \A x \in ExtHolders : xw'[x] # xw[x]]_vars

\* The worker is inside its snapshot insert while both external writers
\* wait for the lock, one to insert a batch.
C9_Witness ==
    /\ \E w \in Workers :
         wk[w].pc = "snapshot_write" /\ wk[w].job.held /\ pending # <<>>
    /\ \A x \in ExtWriters : xw[x].pc = "write" /\ ~xw[x].job.held
    /\ \E x \in ExtWriters : Len(xw[x].job.rows) = 2

\* C10: a query that runs while a write is in progress reads the store as
\* it was before the write or as it is after the write's commit: of the
\* rows of one write call (a record_metrics batch of k entries) it reads
\* none or all k.
C10_ReaderIsolation ==
    \A r \in Readers :
        \A i \in DOMAIN rd[r].rows :
            Cardinality({j \in DOMAIN rd[r].rows :
                            rd[r].rows[j].op = rd[r].rows[i].op})
                = rd[r].rows[i].of

MetricRows(rows) == SelectSeq(rows, LAMBDA row : row.tbl = "metrics")

\* C11: in every reachable state of the store, every row of the metrics
\* table has exactly one of value and value_text, whichever write path
\* inserted it.  Refuted: the row of float("nan") has neither.
C11_ExactlyOneValue ==
    \A i \in DOMAIN committed :
        committed[i].tbl = "metrics" =>
            (committed[i].value = NULL) # (committed[i].text = NULL)

\* C12: in every reachable state of the store, only the rows named
\* "snapshot" hold a text; every row of another name holds a number.
\* Refuted: record_metrics stores str(value) under any name.
C12_TextOnlyOnSnapshot ==
    \A i \in DOMAIN committed :
        (committed[i].tbl = "metrics" /\ committed[i].key # "snapshot") =>
            (committed[i].text = NULL /\ committed[i].value # NULL)

\* C13: the metrics, sessions and crons tables are append-only: every step
\* of every store and collector operation leaves the rows already in the
\* tables where they are and as they are (timestamp, key, value and
\* payload), and at most adds rows after them.
C13_AppendOnly ==
    [][/\ Len(committed') >= Len(committed)
       /\ \A i \in DOMAIN committed : committed'[i] = committed[i]]_vars

\* Rows of both writers are in the tables, in two of them, after a write of
\* the worker raised and the store was closed.
C13_Witness ==
    /\ closed
    /\ \E w \in Workers : wk[w].werr
    /\ \E i, j \in DOMAIN committed :
         /\ committed[i].tbl # committed[j].tbl
         /\ committed[i].op[1] = ApiThread
         /\ committed[j].op[1] # ApiThread

\* The reference of query_metrics, from its definition: the rows of the
\* name in the closed range that hold a number, the multiple of the
\* interval a timestamp falls in, and the sum of the values of some rows.
RefMatching(rows, q) ==
    {i \in DOMAIN rows : /\ rows[i].tbl = "metrics"
                         /\ rows[i].key = q.metric
                         /\ q.from_ts <= rows[i].ts
                         /\ rows[i].ts <= q.to_ts
                         /\ rows[i].value # NULL}
RefBucket(ts, interval) ==
    CHOOSE b \in 0 .. ts : b % interval = 0 /\ b <= ts /\ ts < b + interval
RECURSIVE RefSum(_, _)
RefSum(rows, I) ==
    IF I = {} THEN 0
    ELSE LET i == CHOOSE k \in I : TRUE
         IN  (CHOOSE v \in rows[i].value : TRUE) + RefSum(rows, I \ {i})
MetricsQueried == {r \in Readers : rd[r].query = "query_metrics"}

\* C14: query_metrics(name, from_ts, to_ts, interval) returns the reference:
\* of the rows of that name with from_ts <= ts <= to_ts and a number, grouped
\* by floor(ts / interval) * interval, one pair (bucket, mean) per group, in
\* ascending order of the bucket.
C14_QueryMetricsIsReference ==
    \A r \in MetricsQueried :
        LET q == rd[r].args
            rows == rd[r].rows
            points == rd[r].result.points
            Group(b) == {i \in RefMatching(rows, q) :
                            RefBucket(rows[i].ts, q.interval) = b}
        IN  /\ {points[k].bucket : k \in DOMAIN points}
                 = {RefBucket(rows[i].ts, q.interval) :
                       i \in RefMatching(rows, q)}
            /\ \A k, l \in DOMAIN points :
                 k < l => points[k].bucket < points[l].bucket
            /\ \A k \in DOMAIN points :
                 /\ points[k].n > 0
                 /\ points[k].sum * Cardinality(Group(points[k].bucket))
                      = RefSum(rows, Group(points[k].bucket)) * points[k].n

\* The example of the claim, scaled to the interval 2: the rows at 2 and 2
\* (values 1 and 3) fall in bucket 2 and have mean 2, the row at 1 falls in
\* bucket 0, and both bounds of the range 1..2 are timestamps of rows.
C14_Witness ==
    \E r \in MetricsQueried :
        /\ rd[r].args.interval = 2
        /\ rd[r].args.from_ts = 1
        /\ rd[r].args.to_ts = 2
        /\ Len(rd[r].result.points) = 2
        /\ rd[r].result.points[1].bucket = 0
        /\ rd[r].result.points[2] = [bucket |-> 2, sum |-> 4, n |-> 2]

\* C15: query_metrics returns a pair only for a bucket that holds a matching
\* row with a number, and over a range without such a row (a name never
\* written, an empty range, rows with a text only) it returns the empty
\* list of points, not an error.
C15_SparseResult ==
    \A r \in MetricsQueried :
        LET q == rd[r].args
            rows == rd[r].rows
            points == rd[r].result.points
        IN  /\ rd[r].result.kind = "points"
            /\ \A k \in DOMAIN points :
                 \E i \in RefMatching(rows, q) :
                    RefBucket(rows[i].ts, q.interval) = points[k].bucket
            /\ RefMatching(rows, q) = {} => points = <<>>

\* A query over a range that holds rows of the name, none with a number,
\* returned no point.
C15_Witness ==
    \E r \in MetricsQueried :
        /\ rd[r].result.points = <<>>
        /\ \E i \in DOMAIN rd[r].rows :
             /\ rd[r].rows[i].key = rd[r].args.metric
             /\ rd[r].rows[i].text # NULL
             /\ rd[r].args.from_ts <= rd[r].rows[i].ts
             /\ rd[r].rows[i].ts <= rd[r].args.to_ts

RECURSIVE WrittenSum(_, _)
WrittenSum(written, I) ==
    IF I = {} THEN 0
    ELSE LET i == CHOOSE k \in I : TRUE
         IN  written[i].value.v + WrittenSum(written, I \ {i})

\* C16: when all that was written under a name in one bucket are numbers,
\* one record_metrics(ts, {name: v}) or several, and the range of the query
\* holds their timestamps, query_metrics returns exactly one point for that
\* bucket, and its average is v, or the mean of the values written.
C16_WriteReadRoundTrip ==
    \A r \in MetricsQueried :
        LET q == rd[r].args
            points == rd[r].result.points
            written == Written(CallLog(ApiThread))
            Named == {i \in DOMAIN written : written[i].name = q.metric}
            In(b) == {i \in Named : RefBucket(written[i].ts, q.interval) = b}
        IN  \A i \in Named :
                LET b == RefBucket(written[i].ts, q.interval)
                IN  (\A j \in In(b) : /\ written[j].value.t = "num"
                                      /\ q.from_ts <= written[j].ts
                                      /\ written[j].ts <= q.to_ts)
                    => /\ Cardinality({k \in DOMAIN points :
                                          points[k].bucket = b}) = 1
                       /\ \A k \in DOMAIN points :
                            points[k].bucket = b =>
                               /\ points[k].n > 0
                               /\ points[k].sum * Cardinality(In(b))
                                    = WrittenSum(written, In(b)) * points[k].n

\* Three values were written, 3 at timestamp 1 and 1 and 3 at timestamps 2
\* and 3; the query over 0..3 with interval 2 returned 3 for bucket 0 and
\* the mean 2 for bucket 2.
C16_Witness ==
    \E r \in MetricsQueried :
        /\ rd[r].args.interval = 2
        /\ Len(CallLog(ApiThread)) = 3
        /\ \A i \in 1 .. 3 : CallLog(ApiThread)[i].op = "record_metrics"
        /\ rd[r].result.points = << [bucket |-> 0, sum |-> 3, n |-> 1],
                                    [bucket |-> 2, sum |-> 4, n |-> 2] >>

SnapshotQueried == {r \in Readers : rd[r].query = "query_snapshot"}

\* C19: query_snapshot(t) returns the document of a snapshot row than which
\* no snapshot row lies nearer to t, and the empty result when the store
\* holds no snapshot row.
C19_NearestSnapshot ==
    \A r \in SnapshotQueried :
        LET t == rd[r].args.timestamp
            rows == rd[r].rows
            S == {i \in DOMAIN rows : /\ rows[i].tbl = "metrics"
                                      /\ rows[i].key = "snapshot"
                                      /\ rows[i].text # NULL}
        IN  IF S = {} THEN rd[r].result.snapshot = EmptyDict
            ELSE \E i \in S :
                    /\ Dumps(rd[r].result.snapshot) \in rows[i].text
                    /\ \A j \in S : Abs(rows[i].ts - t) <= Abs(rows[j].ts - t)

\* The example of the claim, scaled: the snapshot at 3 was inserted before
\* the snapshot at 1, and the query at 0 returned the one at 1.
C19_Witness ==
    \E r \in SnapshotQueried :
        /\ rd[r].args.timestamp = 0
        /\ Len(rd[r].rows) >= 2
        /\ rd[r].rows[1].key = "snapshot" /\ rd[r].rows[1].ts = 3
        /\ rd[r].rows[2].key = "snapshot" /\ rd[r].rows[2].ts = 1
        /\ rd[r].result.snapshot = [seen |-> 1]

LogQueried == {r \in Readers : rd[r].query \in {"query_sessions", "query_crons"}}
TableOf(query) == IF query = "query_sessions" THEN "sessions" ELSE "crons"
FieldOf(query) == IF query = "query_sessions" THEN "_session_key" ELSE "_job_id"
InRange(rows, r) ==
    {i \in DOMAIN rows : /\ rows[i].tbl = TableOf(rd[r].query)
                         /\ rd[r].args.from_ts <= rows[i].ts
                         /\ rows[i].ts <= rd[r].args.to_ts}

\* C17: a query of sessions or crons that returns, returns exactly the rows
\* of the range, in ascending order of timestamp; with a filter supplied,
\* whatever its value, exactly those of that key; without one, those of
\* every key.  Refuted: the filter "" is taken as no filter.
C17_RangeAndFilter ==
    \A r \in LogQueried :
        rd[r].result.kind # "raise" =>
            LET rows == rd[r].rows
                key == rd[r].args.key
                records == rd[r].result.records
                Expected == {i \in InRange(rows, r) :
                                key # NULL => rows[i].key \in key}
            IN  /\ Len(records) = Cardinality(Expected)
                /\ \A k \in DOMAIN records :
                     \E i \in Expected :
                        /\ records[k]["_ts"] = rows[i].ts
                        /\ records[k][FieldOf(rd[r].query)] = rows[i].key
                /\ \A k, l \in DOMAIN records :
                     k < l => records[k]["_ts"] <= records[l]["_ts"]

\* C18: every record a query of sessions or crons returns is the payload
\* that was recorded, each of its keys with its value, with the timestamp
\* and the key of the row added.  Refuted: a payload key named like an
\* added field is overwritten.
C18_PayloadRoundTrip ==
    \A r \in LogQueried :
        rd[r].result.kind # "raise" =>
            LET rows == rd[r].rows
                records == rd[r].result.records
            IN  \A k \in DOMAIN records :
                    \E i \in InRange(rows, r) :
                        LET payload == (CHOOSE text \in rows[i].text : TRUE).doc
                        IN  /\ records[k]["_ts"] = rows[i].ts
                            /\ records[k][FieldOf(rd[r].query)] = rows[i].key
                            /\ \A f \in DOMAIN payload :
                                 /\ f \in DOMAIN records[k]
                                 /\ records[k][f] = payload[f]

\* C20: whatever payload texts the rows hold, a query of sessions or crons
\* does not fail and returns one record for each row of its range.
\* Refuted: a payload that parses to something other than a dict makes the
\* query raise.
C20_CorruptRowResilience ==
    \A r \in LogQueried :
        /\ rd[r].result.kind # "raise"
        /\ Len(rd[r].result.records)
             >= Cardinality({i \in InRange(rd[r].rows, r) :
                                Filtering(rd[r].args.key)
                                   => rd[r].rows[i].key \in rd[r].args.key})


\* The write calls made on the closed store that have ended, and the
\* queries made on it.
LateWrites ==
    {x \in ExtWriters : /\ "late" \in DOMAIN xw[x]
                        /\ xw[x].late
                        /\ xw[x].pc = "idle"}
LateQueries == {r \in Readers : "late" \in DOMAIN rd[r] /\ rd[r].late}

\* C21: after close(), every record* call and every query* call made on the
\* store ends with an error raised into its caller, no value returned, and
\* no row is added to or taken from the store.
C21_ClosedStoreFails ==
    /\ [](/\ \A x \in LateWrites : xw[x].raised
          /\ \A r \in LateQueries : rd[r].result = ClosedError)
    /\ [][closed => /\ committed' = committed
                    /\ pending' = pending
                    /\ closed']_vars
C21_Witness ==
    /\ closed
    /\ committed # <<>>
    /\ LateWrites # {}
    /\ \E r \in LateQueries : rd[r].query = "query_sessions"


\* The cron rows of the store, each with the job entry it was written for
\* and the collection time of its cycle.
CronRows == {i \in DOMAIN committed : committed[i].tbl = "crons"}
JobOf(row) == (CHOOSE text \in row.text : TRUE).doc
NowOf(row) == CHOOSE t \in {wk[w].now : w \in {v \in Workers : wk[v].cyc = row.cyc}} : TRUE
Convertible(raw) == raw.t \in {"num", "str"}

\* C22: the CronRecord of a job with last-run value x is stored at x / 1000
\* when x is above the threshold (milliseconds) and at x otherwise, so the
\* same instant in milliseconds and in seconds gives the same timestamp;
\* it is stored at the collection time of the cycle only when x cannot be
\* converted to a number.
C22_CronTimestamp ==
    \A i \in CronRows :
        LET x == JobOf(committed[i]).lastRun
        IN  /\ Convertible(x) /\ x.v > MS_THRESHOLD
                => committed[i].ts * 1000 = x.v
            /\ Convertible(x) /\ x.v <= MS_THRESHOLD => committed[i].ts = x.v
            /\ committed[i].ts = NowOf(committed[i]) /\ Convertible(x)
                => x.v \in {NowOf(committed[i]), NowOf(committed[i]) * 1000}
C22_Witness ==
    \E i, j \in CronRows :
        /\ JobOf(committed[i]).lastRun = Num(5000)
        /\ JobOf(committed[j]).lastRun = Num(5)
        /\ committed[i].ts = committed[j].ts


\* The snapshot rows cycle cyc has written.
SnapshotsOf(cyc) ==
    {i \in DOMAIN committed : /\ committed[i].tbl = "metrics"
                              /\ committed[i].key = "snapshot"
                              /\ committed[i].text # NULL
                              /\ committed[i].cyc = cyc}
\* The gateway answered every call of the worker's cycle with a well-formed
\* document.
AllCollected(w) ==
    /\ wk[w].got.session_status = {GoodStatus}
    /\ wk[w].got.sessions_list = {GoodSessions}
    /\ wk[w].got.cron = {GoodCron}

\* C23: a storage error during a write of a cycle loses only the record of
\* that write: when the gateway answered all three calls and the store stays
\* open, the snapshot row the cycle writes holds the raw response of every
\* step, the step whose write failed included.  Refuted: the step stores
\* its response after its write, so the response of the failed step is not
\* in the snapshot.
C23_WriteErrorLosesOneRecord ==
    \A w \in Workers :
        (CycleOver(w) /\ wk[w].werr /\ ~closed /\ AllCollected(w)) =>
            \A i \in SnapshotsOf(wk[w].cyc) :
                JobOf(committed[i]) = [session_status |-> {GoodStatus},
                                       sessions_list |-> {GoodSessions},
                                       cron |-> {GoodCron}]


\* The rows of the three tables in the file.
DataRows(rows) == {i \in DOMAIN rows : rows[i].tbl # "sqlite_master"}
\* How many entries the catalog holds for an object.
CatalogCount(rows, name) ==
    Cardinality({i \in DOMAIN rows : /\ rows[i].tbl = "sqlite_master"
                                     /\ rows[i].key = name})

\* C24: opening the store again on its path, after close() or without, any
\* number of times, leaves every row of the file in place and unchanged and
\* adds nothing but the tables and indexes the file lacked; an open store
\* has each of its three tables and four indexes, once.
C24_IdempotentInit ==
    /\ [](~closed => \A k \in DOMAIN SchemaObjects :
                        CatalogCount(committed, SchemaObjects[k]) = 1)
    /\ [][Open(ApiThread) =>
            /\ Len(committed') >= Len(committed)
            /\ \A i \in DOMAIN committed : committed'[i] = committed[i]
            /\ DataRows(committed') = DataRows(committed)
            /\ \A i \in DOMAIN committed' \ DOMAIN committed :
                 CatalogCount(committed, committed'[i].key) = 0]_vars
\* The file of the earlier version, with its metric row, was opened; the
\* store was written, closed, used while closed, and opened again.
C24_Witness ==
    /\ ~closed
    /\ "late" \in DOMAIN xw[ApiThread]
    /\ xw[ApiThread].late
    /\ xw[ApiThread].pc = "idle"
    /\ \E i \in DataRows(committed) : committed[i].op[1] = "x0"
    /\ \E i \in DataRows(committed) : committed[i].tbl = "sessions"
    /\ \A i \in DataRows(committed) :
         committed[i].tbl = "sessions" => committed[i].op[1] # "x0"


\* The rows cycle cyc has written.
RowsOf(cyc) == {i \in DOMAIN committed : committed[i].cyc = cyc}
CollectSteps == {"session_status", "sessions_list", "cron"}

\* C25: a cycle that ran against an open store, none of its writes raising,
\* has added exactly one snapshot row; the document of the row holds the
\* response of each step whose call returned a document and no entry for a
\* step whose call raised; a cycle whose three calls raised has added the
\* snapshot row, with an empty document, and no other row.  Refuted: a
\* response json.dumps rejects leaves the cycle without a snapshot row.
C25_OneSnapshotPerCycle ==
    \A w \in Workers :
        (CycleOver(w) /\ ~closed /\ ~wk[w].werr) =>
            /\ Cardinality(SnapshotsOf(wk[w].cyc)) = 1
            /\ \A i \in SnapshotsOf(wk[w].cyc) :
                 \A step \in CollectSteps :
                    \A resp \in wk[w].got[step] :
                       /\ resp.kind = "dict" =>
                              JobOf(committed[i])[step] = {resp}
                       /\ resp.kind = "raise" =>
                              JobOf(committed[i])[step] = {}
            /\ (\A step \in CollectSteps :
                   wk[w].got[step] = {[kind |-> "raise"]}) =>
                  RowsOf(wk[w].cyc) = SnapshotsOf(wk[w].cyc)


StatusFields == {"cost_total", "tokens_in_total", "tokens_out_total"}
\* Cycle cyc has written a metric row of this name.
Named(cyc, name) ==
    \E i \in RowsOf(cyc) : committed[i].tbl = "metrics" /\ committed[i].key = name

\* C26: when the session_status response is a dict, the cycle writes, at
\* its timestamp, a metric row for each of cost_total, tokens_in_total and
\* tokens_out_total that is present and convertible to a number, and none
\* for a field that is absent or unconvertible; when no field is
\* convertible the response is still in the snapshot.  Refuted: a field on
\* which float() raises OverflowError ends the step, so the convertible
\* fields are not written and the response is not in the snapshot.
C26_StatusExtraction ==
    \A w \in Workers :
        CycleOver(w) =>
            \A resp \in wk[w].got.session_status :
                resp.kind = "dict" =>
                    /\ \A f \in StatusFields :
                         /\ Convertible(resp[f]) =>
                                Recorded(wk[w].cyc, wk[w].now, f, resp[f].v)
                         /\ resp[f].t \in {"absent", "junk", "huge"} =>
                                ~Named(wk[w].cyc, f)
                    /\ (\A f \in StatusFields : ~Convertible(resp[f])) =>
                         \A i \in SnapshotsOf(wk[w].cyc) :
                            JobOf(committed[i]).session_status = {resp}


\* The response carries a list of sessions.
CarriesSessions(resp) ==
    resp.kind = "dict" /\ "field" \in DOMAIN resp /\ resp.field = "list"

\* C27: a cycle records the metric sessions_active, with the number of
\* sessions returned, if and only if the sessions_list call returned a list
\* of sessions; a response that is no dict, has no sessions field or holds
\* a sessions field that is no list gives no sessions_active row.  Refuted:
\* a dict without a sessions field is recorded as zero sessions.
C27_SessionsActive ==
    \A w \in Workers :
        CycleOver(w) =>
            \A resp \in wk[w].got.sessions_list :
                /\ CarriesSessions(resp) =>
                       Recorded(wk[w].cyc, wk[w].now, "sessions_active",
                                resp.sessions)
                /\ ~CarriesSessions(resp) =>
                       ~Named(wk[w].cyc, "sessions_active")


\* The CronRecords cycle cyc has written for a job entry, under a key.
CronRecordsOf(cyc, job, key) ==
    {i \in RowsOf(cyc) : /\ committed[i].tbl = "crons"
                         /\ JobOf(committed[i]) = job
                         /\ committed[i].key = key}
\* How often the entry occurs in the list of jobs.
Occurrences(jobs, job) == Cardinality({k \in DOMAIN jobs : jobs[k] = job})

\* C28: for every job entry the cron call returned, a job with a last-run
\* time has one CronRecord of the cycle, keyed by its id, else its name,
\* else "unknown", and a job without a last-run time has none and is in the
\* snapshot document of the cycle.  (Nothing is asked for an entry whose
\* own last-run value makes float() raise.)  Refuted: such an entry ends
\* the loop, so the jobs after it get no CronRecord and the cron response
\* is not in the snapshot.
C28_CronRecords ==
    \A w \in Workers :
        CycleOver(w) =>
            \A resp \in wk[w].got.cron :
                \A k \in DOMAIN resp.jobs :
                    LET job == resp.jobs[k]
                        key == IF job.id # "" THEN job.id
                               ELSE IF job.name # "" THEN job.name
                               ELSE "unknown"
                    IN  /\ (Truthy(job.lastRun) /\ ~Overflows(job.lastRun)) =>
                              Cardinality(CronRecordsOf(wk[w].cyc, job, key))
                                 = Occurrences(resp.jobs, job)
                        /\ ~Truthy(job.lastRun) =>
                              /\ \A i \in RowsOf(wk[w].cyc) :
                                   committed[i].tbl = "crons" =>
                                       JobOf(committed[i]) # job
                              /\ \A i \in SnapshotsOf(wk[w].cyc) :
                                   JobOf(committed[i]).cron = {resp}


\* C29: a stop() requested while a cycle is in progress does not cut the
\* cycle short.  While the flag is set and a worker is inside a cycle, the
\* flag stays set and the worker goes on with the sub-steps of that cycle;
\* it leaves the cycle only into the sleep loop, all four sub-steps run and
\* the snapshot row written; there its first check of the flag ends it,
\* before any pass of the sleep has gone by and without another cycle.
C29_StopLetsCycleFinish ==
    [][\A w \in Workers :
          /\ (stop_event /\ wk[w].pc \in CyclePcs) =>
                /\ stop_event'
                /\ wk'[w].pc \in CyclePcs \cup {"sleep"}
                /\ wk'[w].cycles = wk[w].cycles
                /\ wk'[w].pc = "sleep" =>
                      /\ wk'[w].steps = StepOrder
                      /\ wk'[w].slept = 0
                      /\ SnapshotRecorded(wk[w].cyc, wk[w].now)'
          /\ (/\ stop_event
              /\ wk[w].pc = "sleep"
              /\ wk[w].slept = 0
              /\ ~wk[w].napping) =>
                /\ stop_event'
                /\ wk'[w] = wk[w] \/ wk'[w].pc = "dead"]_vars
\* stop() set the flag while a cycle was in flight, and the worker has
\* ended after the snapshot write of that cycle, at its first check.
C29_Witness ==
    \E w \in Workers, c \in InStop :
        /\ ~cs[c].quiet
        /\ stop_event
        /\ wk[w].pc = "dead"
        /\ wk[w].steps = StepOrder
        /\ wk[w].slept = 0
        /\ SnapshotRecorded(wk[w].cyc, wk[w].now)


\* start() returns in this step: at line 372, having found a live thread,
\* or after Thread.start() at line 379.
StartReturns(c) == (StartCheck(c) /\ AlreadyRunning) \/ StartThread(c)

\* C30: whenever a call of start() returns, a worker is alive and the stop
\* flag is clear, whatever calls of start() and stop() came before.
\* Refuted: after a stop() whose join expired while the worker was inside a
\* gateway call, start() finds the thread alive and returns with the flag
\* still set.
C30_StartMeansRunning ==
    [][\A c \in Callers :
          StartReturns(c) =>
              /\ ~stop_event'
              /\ thread' # NoThread
              /\ wk'[thread'].pc \in AlivePcs]_vars


\* stop() has returned and no start() has cleared the flag since.
Stopped == stop_event /\ \A c \in Callers : cs[c].pc = "idle"

\* C31: once stop() has returned, no worker inserts a row: no step taken
\* after the return adds a row to the store, committed or not.  Refuted:
\* a stop() whose join expired returns while the worker is inside a gateway
\* call, and the worker writes the rows of its cycle afterwards.
C31_NoWriteAfterStop ==
    [][Stopped => /\ committed' = committed
                  /\ pending' = pending]_vars


\* The batches of record_metrics that raised into their caller.
FailedBatches ==
    {x \in ExtWriters : /\ "raised" \in DOMAIN xw[x]
                        /\ xw[x].raised
                        /\ xw[x].pc = "idle"
                        /\ xw[x].log[Len(xw[x].log)].op = "record_metrics"}

\* C32: a batch of record_metrics is all or nothing: when the batch raised,
\* none of its rows is in the tables, whatever was written afterwards.
\* Refuted: the rows inserted before the failure stay in the open
\* transaction of the connection, and the commit of the next write, by any
\* writer, stores them.
C32_BatchAllOrNothing ==
    \A x \in FailedBatches :
        \A i \in DOMAIN committed :
            committed[i].op # << x, "record_metrics", xw[x].n >>


\* C33: the lock of the store is released on every exit from a write, the
\* exits by an exception included: a thread that leaves its write leaves
\* the lock free, and the lock is never held without a thread inside a
\* write, so after any sequence of succeeding and failing writes of the
\* collector and of another thread a further write can take the lock.
C33_LockReleasedOnFailure ==
    /\ [](NumHolders = 0 => ~lock)
    /\ [][/\ \A w \in Workers :
               (wk[w].job.held /\ ~wk'[w].job.held) => ~lock'
          /\ \A x \in ExtWriters :
               (xw[x].job.held /\ ~xw'[x].job.held) => ~lock']_vars
\* A write of the thread has raised, a write of the worker has raised, and
\* the worker is inside a further write, holding the lock.
C33_Witness ==
    /\ "raised" \in DOMAIN xw[ApiThread]
    /\ xw[ApiThread].raised
    /\ xw[ApiThread].pc = "idle"
    /\ \E w \in Workers : wk[w].werr /\ wk[w].job.held
    /\ lock


\* The metric rows the cycles of the collector have written.
CycleMetricRows ==
    {i \in DOMAIN committed : committed[i].tbl = "metrics" /\ committed[i].cyc # 0}

SessionRows == SelectSeq(Visible, LAMBDA row : row.tbl = "sessions")
StoredSessions == SelectSeq(committed, LAMBDA row : row.tbl = "sessions")

\* C35: the six queries leave the rows of the three tables as they were,
\* and the collector's cycle leaves the sessions table as it was: none of
\* its rows was written by a cycle, and no step of a worker changes its
\* rows, neither those the connection reads nor those the file holds.
C35_QueriesReadOnly ==
    /\ [](\A i \in DOMAIN Visible :
            Visible[i].tbl = "sessions" => Visible[i].cyc = 0)
    /\ [][/\ rd' # rd => /\ committed' = committed
                         /\ pending' = pending
          /\ wk' # wk => /\ SessionRows' = SessionRows
                         /\ StoredSessions' = StoredSessions]_vars

====
